---- MODULE Spec2Model ----
(***************************************************************************)
(* A model of LanceMemoryStore (src/src/memory-store.ts): the table        *)
(* lifecycle, the row CRUD operations, the three search strategies and the *)
(* temporal-decay rescoring.                                               *)
(*                                                                         *)
(* Representation.                                                         *)
(*   - A string that the code splices into an engine predicate (an id, a   *)
(*     category) is a sequence of tokens; the token "'" is the single      *)
(*     quote, so that sanitise() and the engine's reading of the quoted    *)
(*     literal are real conversions.                                       *)
(*   - A JSON text is a sequence of tokens "[", "]", ",", "\"" and tags.  *)
(*   - An ISO-8601 timestamp is a fixed-width sequence of decimal digits;  *)
(*     the time it encodes is counted in days.                             *)
(*   - A score is an exact rational [n, d] with d > 0.                     *)
(*   - The storage engine (LanceDB) is modelled by the table it keeps:     *)
(*     diskTable, rows, diskFts.                                           *)
(***************************************************************************)
EXTENDS Integers, Sequences, FiniteSets, TLC

\* ---------------------------------------------------------------- bounds

\* the last day, counted from the first, at which a decay factor is computed
MaxDay == 6
\* how many ids crypto.randomUUID() hands out in one run
MaxIds == 2
\* the longest request list given to storeBatch
MaxBatch == 2
\* the largest limit a caller passes
MaxLimit == 2

\* ------------------------------------------------------ program constants

\* parseDecayHalfLife's default, in days
DEFAULT_HALF_LIFE == 30

\* the instants, in days, at which calls are made: one half-life apart
Instants == {0, DEFAULT_HALF_LIFE}

EVERGREEN_TAGS == {"evergreen", "never-forget"}

\* ------------------------------------------------------------ input sets

Quote == "'"

\* a subset of MEMORY_CATEGORIES (src/src/types.ts)
Categories == {<<"learning">>, <<"other">>}

\* the requests a caller of store / storeBatch sends
StoreRequests ==
  { [content |-> "alpha", category |-> <<"learning">>, tags |-> <<"evergreen">>],
    [content |-> "beta",  category |-> <<"other">>,    tags |-> <<>>] }

\* an optional field of a request: absent (undefined), or present with a value
Absent == <<>>
Some(v) == <<v>>
Present(o) == Len(o) = 1

\* the updates a caller of update sends: no field, each field alone (the
\* content also as the empty string), and all three
UpdateRequests ==
  { [content |-> Absent,       category |-> Absent,            tags |-> Absent],
    [content |-> Some(""),     category |-> Absent,            tags |-> Absent],
    [content |-> Some("beta"), category |-> Absent,            tags |-> Absent],
    [content |-> Absent,       category |-> Some(<<"other">>), tags |-> Absent],
    [content |-> Absent,       category |-> Absent,            tags |-> Some(<<>>)],
    [content |-> Some("beta"), category |-> Some(<<"other">>), tags |-> Some(<<>>)] }

\* ids a caller makes up: they are never the id of a row
BogusIds == { <<"x", Quote>> }

\* ------------------------------------------------------------- variables

VARIABLES
  db,               \* this.db is a connection (not null)
  reranker,         \* this.reranker is set (not null)
  table,            \* this.table is a handle (not null)
  ftsIndexCreated,  \* this.ftsIndexCreated
  diskTable,        \* the engine: the table 'memories' exists
  rows,             \* the engine: the rows of the table, kept in id order
  diskFts,          \* the engine: the table has a full-text index
  nextId,           \* how many ids randomUUID() has given to stored memories
  clock,            \* Date.now(), in days
  last,             \* the last call: what it was given and what it returned
  deleted,          \* ids of stored memories given to a successful delete
  onlyStores,       \* every write call so far was a store
  hardcopy,         \* HardcopyMemoryStore: the files of the hardcopy directory
  inflight          \* the calls that have started and not returned yet

vars == <<db, reranker, table, ftsIndexCreated, diskTable, rows, diskFts,
          nextId, clock, last, deleted, onlyStores, hardcopy, inflight>>

\* the ids returned by a successful store or storeBatch (the id drawn by a
\* call that fails is never seen again and is not counted)
stored == { << ToString(n) >> : n \in 1..nextId }

\* ------------------------------------------------------- pure conversions

RECURSIVE sanitise(_)
\* value.replace(/'/g, "''")
sanitise(value) ==
  IF value = <<>> THEN <<>>
  ELSE IF Head(value) = Quote
       THEN <<Quote, Quote>> \o sanitise(Tail(value))
       ELSE <<Head(value)>> \o sanitise(Tail(value))

RECURSIVE SqlLiteral(_)
\* the engine's reading of the text between the quotes of '...': a doubled
\* quote stands for one quote
SqlLiteral(text) ==
  IF text = <<>> THEN <<>>
  ELSE IF Head(text) = Quote /\ Len(text) >= 2 /\ text[2] = Quote
       THEN <<Quote>> \o SqlLiteral(Tail(Tail(text)))
       ELSE <<Head(text)>> \o SqlLiteral(Tail(text))

RECURSIVE JSONElems(_)
\* the elements of a JSON array of strings, each in double quotes, with commas
JSONElems(tags) ==
  IF tags = <<>> THEN <<>>
  ELSE IF Len(tags) = 1 THEN <<"\"", tags[1], "\"">>
       ELSE <<"\"", tags[1], "\"", ",">> \o JSONElems(Tail(tags))

\* JSON.stringify of an array of strings
JSONStringify(tags) == <<"[">> \o JSONElems(tags) \o <<"]">>

RECURSIVE JSONParseFrom(_, _)
JSONParseFrom(text, i) ==
  IF i > Len(text) \/ text[i] = "]" THEN <<>>
  ELSE IF text[i] = "," THEN JSONParseFrom(text, i + 1)
  ELSE <<text[i + 1]>> \o JSONParseFrom(text, i + 3)

\* JSON.parse of the text of an array of strings
JSONParse(text) == JSONParseFrom(text, 2)

Digits == << "0", "1", "2", "3", "4", "5", "6", "7", "8", "9" >>

\* the place of a character in the collating order: the quote comes before
\* the digits
CharCode(c) ==
  IF c = Quote THEN 0
  ELSE CHOOSE d \in 1..10 : Digits[d] = c

\* Date.prototype.toISOString: fixed width, so that the order of the texts
\* is the order of the times
toISOString(t) ==
  << Digits[(t \div 100) + 1], Digits[((t \div 10) % 10) + 1], Digits[(t % 10) + 1] >>

\* new Date(text).getTime()
getTime(text) ==
  100 * (CharCode(text[1]) - 1) + 10 * (CharCode(text[2]) - 1) + (CharCode(text[3]) - 1)

RECURSIVE localeCompare(_, _)
\* String.prototype.localeCompare, and the engine's comparison of two
\* strings: -1, 0 or 1
localeCompare(a, b) ==
  IF a = <<>> /\ b = <<>> THEN 0
  ELSE IF a = <<>> THEN -1
  ELSE IF b = <<>> THEN 1
  ELSE IF CharCode(Head(a)) < CharCode(Head(b)) THEN -1
  ELSE IF CharCode(Head(a)) > CharCode(Head(b)) THEN 1
  ELSE localeCompare(Tail(a), Tail(b))

\* ------------------------------------------------------------- rationals

RECURSIVE GCD(_, _)
GCD(a, b) == IF b = 0 THEN a ELSE GCD(b, a % b)

\* the rational n / d (n >= 0, d > 0) in lowest terms
Rat(n, d) == LET g == GCD(n, d) IN [n |-> n \div g, d |-> d \div g]
RatMul(a, b) == Rat(a.n * b.n, a.d * b.d)
RatAdd(a, b) == Rat(a.n * b.d + b.n * a.d, a.d * b.d)
RatLess(a, b) == a.n * b.d < b.n * a.d

RECURSIVE Pow2(_)
Pow2(k) == IF k = 0 THEN 1 ELSE 2 * Pow2(k - 1)

\* ---------------------------------------------------------------- sorting

RECURSIVE InsertSorted(_, _, _)
\* x put into the sorted sequence s, after every element that does not come
\* after it: cmp(a, b) < 0 says a comes before b
InsertSorted(cmp(_, _), x, s) ==
  IF s = <<>> THEN <<x>>
  ELSE IF cmp(x, Head(s)) < 0 THEN <<x>> \o s
  ELSE <<Head(s)>> \o InsertSorted(cmp, x, Tail(s))

RECURSIVE SortFrom(_, _, _)
SortFrom(cmp(_, _), s, acc) ==
  IF s = <<>> THEN acc
  ELSE SortFrom(cmp, Tail(s), InsertSorted(cmp, Head(s), acc))

\* Array.prototype.sort(cmp): a stable sort
sort(cmp(_, _), s) == SortFrom(cmp, s, <<>>)

\* Array.prototype.slice(0, limit), limit >= 0
slice(s, limit) == SubSeq(s, 1, IF limit < Len(s) THEN limit ELSE Len(s))

\* crypto.randomUUID(): the n-th id handed out
randomUUID(n) == << ToString(n) >>

\* ------------------------------------------------------------- embedder

\* Embedder.embed: a deterministic map from text to a unit vector, here the
\* vector's angle in units of 60 degrees
embed(text) ==
  CASE text = "alpha" -> 0
    [] text = "beta"  -> 1
    [] OTHER          -> 2

\* cosine distance 1 - cos(angle between u and v): 0, 1/2, 3/2
cosineDistance(u, v) ==
  LET a == IF u >= v THEN u - v ELSE v - u
  IN  IF a = 0 THEN Rat(0, 1) ELSE IF a = 1 THEN Rat(1, 2) ELSE Rat(3, 2)

\* ----------------------------------------------------------------- rows

\* toRow(request, vector, timestamp), with the id randomUUID() returns
toRow(request, vector, timestamp, uuid) ==
  [ id         |-> uuid,
    content    |-> request.content,
    category   |-> request.category,
    tags       |-> JSONStringify(request.tags),
    created_at |-> timestamp,
    updated_at |-> timestamp,
    vector     |-> vector ]

rowToMemory(row) ==
  [ id        |-> row.id,
    content   |-> row.content,
    category  |-> row.category,
    tags      |-> JSONParse(row.tags),
    createdAt |-> row.created_at,
    updatedAt |-> row.updated_at ]

\* buildRow(request): embed, stamp with now, draw the n-th id
buildRow(request, now, n) ==
  toRow(request, embed(request.content), toISOString(now), randomUUID(n))

MapSeq(f(_), s) == [ i \in 1..Len(s) |-> f(s[i]) ]

\* ----------------------------------------------------- the storage engine

\* table.delete(`id = '${sanitise(id)}'`): the rows that stay
\* Variant of tableDelete: the predicate is dropped, every row goes.
tableDeleteAll(rs, id) == <<>>

\* Variant of tableDelete: the predicate matches nothing, every row stays.
tableDeleteNothing(rs, id) == rs

tableDelete(rs, id) ==
  LET lit == SqlLiteral(sanitise(id))
      keep(r) == r.id # lit
  IN  SelectSeq(rs, keep)

\* the engine's scan order is its own business: the model keeps the rows in
\* the order of their ids, rows of one id in the order of their insertion
IdIndex(id) == CHOOSE n \in 1..MaxIds : randomUUID(n) = id
IdBefore(a, b) == IdIndex(a) <= IdIndex(b)

RECURSIVE tableAdd(_, _)
\* table.add(newRows)
tableAdd(rs, newRows) ==
  IF newRows = <<>> THEN rs
  ELSE LET r  == Head(newRows)
           lo == SelectSeq(rs, LAMBDA x : IdBefore(x.id, r.id))
           hi == SelectSeq(rs, LAMBDA x : ~IdBefore(x.id, r.id))
       IN  tableAdd(lo \o <<r>> \o hi, Tail(newRows))

\* table.query().where(`id = '${sanitise(id)}'`)
whereId(rs, id) ==
  LET lit == SqlLiteral(sanitise(id))
      hit(r) == r.id = lit
  IN  SelectSeq(rs, hit)

\* --------------------------------------------------- table management

\* tryCreateFtsIndex(): [created, onDisk, attempted] after the call, given
\* whether the engine's createIndex succeeds
tryCreateFtsIndex(created, hasTable, onDisk, indexOk) ==
  IF created \/ ~hasTable
  THEN [created |-> created, onDisk |-> onDisk, attempted |-> FALSE]
  ELSE [created |-> indexOk, onDisk |-> onDisk \/ indexOk, attempted |-> TRUE]

\* ensureTable(seedRow): what the call leaves behind and returns
\* Variant of ensureTable: the table is created from the seed row but the
\* caller is told that nothing was seeded, so it inserts the seed again.
ensureTableNeverSeeded(seedRow, indexOk) ==
  IF table
  THEN [ threw |-> FALSE, seeded |-> FALSE, rows |-> rows,
         ftsIndexCreated |-> ftsIndexCreated, diskFts |-> diskFts,
         calls |-> <<>> ]
  ELSE IF ~db
  THEN [ threw |-> TRUE, seeded |-> FALSE, rows |-> rows,
         ftsIndexCreated |-> ftsIndexCreated, diskFts |-> diskFts,
         calls |-> <<>> ]
  ELSE LET idx == tryCreateFtsIndex(ftsIndexCreated, TRUE, diskFts, indexOk)
       IN [ threw |-> FALSE, seeded |-> FALSE, rows |-> <<seedRow>>,
            ftsIndexCreated |-> idx.created, diskFts |-> idx.onDisk,
            calls |-> <<"createTable">>
                      \o (IF idx.attempted THEN <<"createIndex">> ELSE <<>>) ]

ensureTable(seedRow, indexOk) ==
  IF table
  THEN [ threw |-> FALSE, seeded |-> FALSE, rows |-> rows,
         ftsIndexCreated |-> ftsIndexCreated, diskFts |-> diskFts,
         calls |-> <<>> ]
  ELSE IF ~db
  THEN \* this.db! is null: createTable is called on null
       [ threw |-> TRUE, seeded |-> FALSE, rows |-> rows,
         ftsIndexCreated |-> ftsIndexCreated, diskFts |-> diskFts,
         calls |-> <<>> ]
  ELSE LET idx == tryCreateFtsIndex(ftsIndexCreated, TRUE, diskFts, indexOk)
       IN [ threw |-> FALSE, seeded |-> TRUE, rows |-> <<seedRow>>,
            ftsIndexCreated |-> idx.created, diskFts |-> idx.onDisk,
            calls |-> <<"createTable">>
                      \o (IF idx.attempted THEN <<"createIndex">> ELSE <<>>) ]

\* -------------------------------------------------------- temporal decay

\* the value of an environment variable: unset, a number, or other text
EnvUnset == [kind |-> "undefined", n |-> 0]
EnvNumber(n) == [kind |-> "number", n |-> n]
EnvText == [kind |-> "text", n |-> 0]

parseDecayHalfLife(value) ==
  IF value.kind = "undefined" THEN DEFAULT_HALF_LIFE
  ELSE IF value.kind = "text" \/ value.n <= 0 THEN 0
  ELSE value.n

\* process.env.MEMORY_DECAY_HALF_LIFE
MEMORY_DECAY_HALF_LIFE == EnvUnset

DECAY_HALF_LIFE_DAYS == parseDecayHalfLife(MEMORY_DECAY_HALF_LIFE)

\* Variant of computeDecayFactor: the age is not clamped at 0, so that an
\* updatedAt in the future gives a factor above 1.
computeDecayFactorUnclamped(updatedAt, halfLifeDays, now) ==
  IF halfLifeDays <= 0 THEN Rat(1, 1)
  ELSE LET age == now - getTime(updatedAt)
           q   == (IF age >= 0 THEN age ELSE 0 - age) \div halfLifeDays
           r   == (IF age >= 0 THEN age ELSE 0 - age) % halfLifeDays
       IN  IF age >= 0
           THEN Rat(2 * halfLifeDays - r, 2 * halfLifeDays * Pow2(q))
           ELSE Rat((halfLifeDays + r) * Pow2(q), halfLifeDays)

\* computeDecayFactor(updatedAt, halfLifeDays) at Date.now() = now.  The age
\* is q half-lives and r days more: 0.5^q exactly, and between two whole
\* half-lives the chord of the curve
computeDecayFactor(updatedAt, halfLifeDays, now) ==
  IF halfLifeDays <= 0 THEN Rat(1, 1)
  ELSE LET age     == now - getTime(updatedAt)
           ageDays == IF age > 0 THEN age ELSE 0
           q       == ageDays \div halfLifeDays
           r       == ageDays % halfLifeDays
       IN  Rat(2 * halfLifeDays - r, 2 * halfLifeDays * Pow2(q))

\* Variant of isEvergreen: no tag exempts a memory from decay.
isEvergreenNever(row) == FALSE

isEvergreen(row) ==
  LET tags == JSONParse(row.tags)
  IN  \E i \in 1..Len(tags) : tags[i] \in EVERGREEN_TAGS

\* --------------------------------------------------------- result rows

\* a row as a query returns it: with the score columns the query adds
Scored(row, distance, ftsScore, relevance) ==
  [ id |-> row.id, content |-> row.content, category |-> row.category,
    tags |-> row.tags, created_at |-> row.created_at,
    updated_at |-> row.updated_at, vector |-> row.vector,
    _distance |-> distance, _score |-> ftsScore, _relevance_score |-> relevance ]

\* Variant of resultToSearchResult: the distance is looked at before the
\* relevance score.
resultToSearchResultDistanceFirst(row, now) ==
  LET raw == IF Present(row._distance)
             THEN Rat(row._distance[1].d, row._distance[1].d + row._distance[1].n)
             ELSE IF Present(row._relevance_score) THEN row._relevance_score[1]
             ELSE IF Present(row._score) THEN row._score[1]
             ELSE Rat(0, 1)
      score == IF DECAY_HALF_LIFE_DAYS > 0 /\ ~isEvergreen(row)
               THEN RatMul(raw, computeDecayFactor(row.updated_at, DECAY_HALF_LIFE_DAYS, now))
               ELSE raw
  IN  [memory |-> rowToMemory(row), score |-> score]

resultToSearchResult(row, now) ==
  LET raw == IF Present(row._relevance_score) THEN row._relevance_score[1]
             ELSE IF Present(row._distance)
                  THEN Rat(row._distance[1].d, row._distance[1].d + row._distance[1].n)
             ELSE IF Present(row._score) THEN row._score[1]
             ELSE Rat(0, 1)
      score == IF DECAY_HALF_LIFE_DAYS > 0 /\ ~isEvergreen(row)
               THEN RatMul(raw, computeDecayFactor(row.updated_at, DECAY_HALF_LIFE_DAYS, now))
               ELSE raw
  IN  [memory |-> rowToMemory(row), score |-> score]

\* (a, b) => b.score - a.score
byScoreDesc(a, b) ==
  IF RatLess(b.score, a.score) THEN -1 ELSE IF RatLess(a.score, b.score) THEN 1 ELSE 0

\* Variant of toResults: the rows are cut to the limit in the order the
\* engine returned them.
toResultsUnsorted(scoredRows, limit, now) ==
  LET results == [ i \in 1..Len(scoredRows) |-> resultToSearchResult(scoredRows[i], now) ]
  IN  slice(results, limit)

toResults(scoredRows, limit, now) ==
  LET results == [ i \in 1..Len(scoredRows) |-> resultToSearchResult(scoredRows[i], now) ]
  IN  slice(sort(byScoreDesc, results), limit)

\* ------------------------------------------------------------- filters

\* an optional string is truthy: neither undefined nor empty
TruthyText(o) == Present(o) /\ o[1] # <<>>

\* applyWhereClause(search, filters): the predicate the engine applies
wherePredicate(filters, row) ==
  /\ TruthyText(filters.category)
       => row.category = SqlLiteral(sanitise(filters.category[1]))
  /\ TruthyText(filters.after)
       => localeCompare(row.created_at, SqlLiteral(sanitise(filters.after[1]))) >= 0
  /\ TruthyText(filters.before)
       => localeCompare(row.created_at, SqlLiteral(sanitise(filters.before[1]))) <= 0

\* Variant of postFilter: the tags are not looked at.
postFilterKeepsAll(scoredRows, filters) == scoredRows

postFilter(scoredRows, filters) ==
  IF ~Present(filters.tags) \/ Len(filters.tags[1]) = 0 THEN scoredRows
  ELSE LET wanted == filters.tags[1]
           hit(r) == LET tags == JSONParse(r.tags)
                     IN  \E i \in 1..Len(wanted) : \E j \in 1..Len(tags) : tags[j] = wanted[i]
       IN  SelectSeq(scoredRows, hit)

\* ------------------------------------------------------------------ Init

NoCall == [op |-> "none", ok |-> TRUE, arg |-> <<>>, result |-> <<>>, calls |-> <<>>]

Init ==
  /\ db = FALSE
  /\ reranker = FALSE
  /\ table = FALSE
  /\ ftsIndexCreated = FALSE
  /\ diskTable = FALSE
  /\ rows = <<>>
  /\ diskFts = FALSE
  /\ nextId = 0
  /\ clock = 0
  /\ last = NoCall
  /\ deleted = {}
  /\ onlyStores = TRUE
  /\ hardcopy = {}
  /\ inflight = <<>>

\* --------------------------------------------------------------- actions

\* time passes
Tick ==
  /\ \E t \in Instants : t > clock /\ clock' = t
  /\ last' = [NoCall EXCEPT !.op = "tick"]
  /\ UNCHANGED <<hardcopy, inflight>>
  /\ UNCHANGED <<db, reranker, table, ftsIndexCreated, diskTable, rows, diskFts,
                 nextId, deleted, onlyStores>>

\* The outcomes of table.createIndex: it succeeds or throws where it is
\* called, and there is nothing to choose where it is not.
CreateIndexOutcomes(called) == IF called THEN BOOLEAN ELSE {TRUE}

\* Variant of initialize: it creates an empty table when none is on disk.
initializeEager ==
  /\ db' = TRUE
  /\ reranker' = TRUE
  /\ table' = TRUE
  /\ diskTable' = TRUE
  /\ last' = [NoCall EXCEPT !.op = "initialize",
                !.calls = IF diskTable THEN <<"openTable">> ELSE <<"createTable">>]
  /\ UNCHANGED <<hardcopy, inflight>>
  /\ UNCHANGED <<ftsIndexCreated, diskFts, rows, nextId, clock, deleted, onlyStores>>

\* Variant of initialize: the index is rebuilt on every call that finds a
\* table, and a failed rebuild leaves it recorded as unavailable.
initializeRebuilds ==
  \E indexOk \in BOOLEAN :
    /\ db' = TRUE
    /\ reranker' = TRUE
    /\ IF diskTable
       THEN /\ table' = TRUE
            /\ ftsIndexCreated' = indexOk
            /\ diskFts' = indexOk
            /\ last' = [NoCall EXCEPT !.op = "initialize",
                          !.calls = <<"openTable", "createIndex">>]
       ELSE /\ UNCHANGED <<table, ftsIndexCreated, diskFts>>
            /\ last' = [NoCall EXCEPT !.op = "initialize"]
    /\ UNCHANGED <<hardcopy, inflight>>
    /\ UNCHANGED <<diskTable, rows, nextId, clock, deleted, onlyStores>>

initialize ==
  \E indexOk \in CreateIndexOutcomes(diskTable /\ ~ftsIndexCreated) :
    LET idx == tryCreateFtsIndex(ftsIndexCreated, TRUE, diskFts, indexOk)
    IN
    /\ db' = TRUE
    /\ reranker' = TRUE
    /\ IF diskTable
       THEN /\ table' = TRUE
            /\ ftsIndexCreated' = idx.created
            /\ diskFts' = idx.onDisk
            /\ last' = [NoCall EXCEPT !.op = "initialize",
                          !.calls = <<"openTable">>
                             \o (IF idx.attempted THEN <<"createIndex">> ELSE <<>>)]
       ELSE /\ UNCHANGED <<table, ftsIndexCreated, diskFts>>
            /\ last' = [NoCall EXCEPT !.op = "initialize"]
    /\ UNCHANGED <<hardcopy, inflight>>
    /\ UNCHANGED <<diskTable, rows, nextId, clock, deleted, onlyStores>>

store(request) ==
  /\ nextId < MaxIds
  /\ \E indexOk \in CreateIndexOutcomes(~table /\ db /\ ~ftsIndexCreated) :
       LET row == buildRow(request, clock, nextId + 1)
           et  == ensureTable(row, indexOk)
       IN
       /\ IF et.threw
          THEN /\ last' = [op |-> "store", ok |-> FALSE, arg |-> request,
                           result |-> <<>>, calls |-> <<"embed">>]
               /\ UNCHANGED <<table, ftsIndexCreated, diskTable, rows, diskFts,
                              nextId>>
          ELSE /\ table' = TRUE
               /\ diskTable' = TRUE
               /\ ftsIndexCreated' = et.ftsIndexCreated
               /\ diskFts' = et.diskFts
               /\ rows' = IF et.seeded THEN et.rows ELSE tableAdd(et.rows, <<row>>)
               /\ last' = [op |-> "store", ok |-> TRUE, arg |-> request,
                           result |-> <<rowToMemory(row)>>,
                           calls |-> <<"embed">> \o et.calls
                                     \o (IF et.seeded THEN <<>> ELSE <<"add">>)]
               /\ nextId' = nextId + 1
       /\ UNCHANGED <<hardcopy, inflight>>
       /\ UNCHANGED <<db, reranker, clock, deleted, onlyStores>>

\* Variant of remainingRows: the seed row is not sliced off.
remainingRowsAll(seeded, newRows) == newRows

\* seeded ? rows.slice(1) : rows
remainingRows(seeded, newRows) == IF seeded THEN Tail(newRows) ELSE newRows

\* the request lists given to storeBatch
Batches == UNION { [1..n -> StoreRequests] : n \in 0..MaxBatch }

storeBatch(requests) ==
  /\ nextId + Len(requests) <= MaxIds
  /\ onlyStores' = FALSE
  /\ IF Len(requests) = 0
     THEN /\ last' = [op |-> "storeBatch", ok |-> TRUE, arg |-> requests,
                      result |-> <<>>, calls |-> <<>>]
          /\ UNCHANGED <<table, ftsIndexCreated, diskTable, rows, diskFts,
                         nextId>>
     ELSE \E indexOk \in CreateIndexOutcomes(~table /\ db /\ ~ftsIndexCreated) :
       LET newRows == [ i \in 1..Len(requests) |->
                          toRow(requests[i], embed(requests[i].content),
                                toISOString(clock), randomUUID(nextId + i)) ]
           et        == ensureTable(newRows[1], indexOk)
           remaining == remainingRows(et.seeded, newRows)
       IN
       /\ IF et.threw
          THEN /\ last' = [op |-> "storeBatch", ok |-> FALSE, arg |-> requests,
                           result |-> <<>>, calls |-> <<"embedBatch">>]
               /\ UNCHANGED <<table, ftsIndexCreated, diskTable, rows, diskFts,
                              nextId>>
          ELSE /\ table' = TRUE
               /\ diskTable' = TRUE
               /\ ftsIndexCreated' = et.ftsIndexCreated
               /\ diskFts' = et.diskFts
               /\ rows' = IF Len(remaining) > 0
                          THEN tableAdd(et.rows, remaining) ELSE et.rows
               /\ last' = [op |-> "storeBatch", ok |-> TRUE, arg |-> requests,
                           result |-> MapSeq(rowToMemory, newRows),
                           calls |-> <<"embedBatch">> \o et.calls
                                     \o (IF Len(remaining) > 0 THEN <<"add">> ELSE <<>>)]
               /\ nextId' = nextId + Len(requests)
  /\ UNCHANGED <<hardcopy, inflight>>
  /\ UNCHANGED <<db, reranker, clock, deleted>>

\* fetchById(id): the first row the id predicate selects, or Null
Null == [id |-> <<"null">>]

fetchById(id) ==
  IF ~table THEN Null
  ELSE LET found == whereId(rows, id)
       IN  IF Len(found) >= 1 THEN found[1] ELSE Null

\* an optional string is truthy: neither undefined nor the empty string
Truthy(o) == Present(o) /\ o[1] # ""

\* a ?? b
\* Variant of Coalesce: the existing value is always kept.
CoalesceKeepsExisting(o, b) == b

Coalesce(o, b) == IF Present(o) THEN o[1] ELSE b

\* the row update(id, updates) writes in place of `existing`
\* Variant of updatedRow: the replacement row is stamped like a new row,
\* created_at included.
updatedRowRestamped(id, updates, existing, now) ==
  LET content  == Coalesce(updates.content, existing.content)
      category == Coalesce(updates.category, existing.category)
      tags     == Coalesce(updates.tags, JSONParse(existing.tags))
      vector   == IF Truthy(updates.content) THEN embed(content) ELSE existing.vector
  IN  [ id         |-> id,
        content    |-> content,
        category   |-> category,
        tags       |-> JSONStringify(tags),
        created_at |-> toISOString(now),
        updated_at |-> toISOString(now),
        vector     |-> vector ]

updatedRow(id, updates, existing, now) ==
  LET content  == Coalesce(updates.content, existing.content)
      category == Coalesce(updates.category, existing.category)
      tags     == Coalesce(updates.tags, JSONParse(existing.tags))
      vector   == IF Truthy(updates.content) THEN embed(content) ELSE existing.vector
  IN  [ id         |-> id,
        content    |-> content,
        category   |-> category,
        tags       |-> JSONStringify(tags),
        created_at |-> existing.created_at,
        updated_at |-> toISOString(now),
        vector     |-> vector ]

\* the ids a caller can name: the ones handed out so far, and made-up ones
CallerIds == { randomUUID(n) : n \in 1..nextId } \cup BogusIds

\* Variant of replaceRow: the old row is not deleted before the insert.
replaceRowNoDelete(rs, id, new) == tableAdd(rs, <<new>>)

\* await this.table.delete(`id = ...`); await this.table.add([updatedRow])
replaceRow(rs, id, new) == tableAdd(tableDelete(rs, id), <<new>>)

\* Variant of updateOutcome: the new content is embedded before the row is
\* looked up.
updateOutcomeEmbedsFirst(id, updates) ==
  IF ~table
  THEN [ok |-> FALSE, rows |-> rows, result |-> <<>>, calls |-> <<>>]
  ELSE LET existing == fetchById(id)
           first    == (IF Truthy(updates.content) THEN <<"embed">> ELSE <<>>)
                       \o <<"fetchById">>
       IN
       IF existing = Null
       THEN [ok |-> FALSE, rows |-> rows, result |-> <<>>, calls |-> first]
       ELSE LET new == updatedRow(id, updates, existing, clock) IN
            [ ok     |-> TRUE,
              rows   |-> tableAdd(tableDelete(rows, id), <<new>>),
              result |-> <<rowToMemory(new)>>,
              calls  |-> first \o <<"delete", "add">> ]

\* update(id, updates): whether it returns, the rows it leaves, what it
\* returns and the calls it makes on the engine and the embedder
updateOutcome(id, updates) ==
  IF ~table
  THEN \* throw new Error('No memories stored yet')
       [ok |-> FALSE, rows |-> rows, result |-> <<>>, calls |-> <<>>]
  ELSE LET existing == fetchById(id) IN
       IF existing = Null
       THEN \* throw new Error(`Memory ${id} not found`)
            [ok |-> FALSE, rows |-> rows, result |-> <<>>, calls |-> <<"fetchById">>]
       ELSE LET new == updatedRow(id, updates, existing, clock) IN
            [ ok     |-> TRUE,
              rows   |-> replaceRow(rows, id, new),
              result |-> <<rowToMemory(new)>>,
              calls  |-> <<"fetchById">>
                         \o (IF Truthy(updates.content) THEN <<"embed">> ELSE <<>>)
                         \o <<"delete", "add">> ]

update(id, updates) ==
  /\ onlyStores' = FALSE
  /\ LET out == updateOutcome(id, updates) IN
     /\ rows' = out.rows
     /\ last' = [op |-> "update", ok |-> out.ok,
                 arg |-> IF out.ok THEN [id |-> id, updates |-> updates] ELSE [id |-> id],
                 result |-> out.result, calls |-> out.calls]
  /\ UNCHANGED <<hardcopy, inflight>>
  /\ UNCHANGED <<db, reranker, table, ftsIndexCreated, diskTable, diskFts,
                 nextId, clock, deleted>>

delete(id) ==
  /\ onlyStores' = FALSE
  /\ IF ~table
     THEN \* throw new Error('No memories stored yet')
          /\ last' = [op |-> "delete", ok |-> FALSE, arg |-> id,
                      result |-> <<>>, calls |-> <<>>]
          /\ UNCHANGED <<rows, deleted>>
     ELSE /\ rows' = tableDelete(rows, id)
          /\ deleted' = deleted \cup ({id} \cap stored)
          /\ last' = [op |-> "delete", ok |-> TRUE, arg |-> id,
                      result |-> <<>>, calls |-> <<"delete">>]
  /\ UNCHANGED <<hardcopy, inflight>>
  /\ UNCHANGED <<db, reranker, table, ftsIndexCreated, diskTable, diskFts,
                 nextId, clock>>

\* ------------------------------------------------- the engine's queries

\* the places 1..n of a sequence, as a sequence
Places(n) == [ i \in 1..n |-> i ]

Member(x, s) == \E p \in 1..Len(s) : s[p] = x

\* the place of x in s
PlaceIn(x, s) == CHOOSE p \in 1..Len(s) : s[p] = x

\* the places of the candidate rows nearest to `vector`, nearest first, k at most
nearestPlaces(cand, vector, k) ==
  LET dist(i) == cosineDistance(cand[i].vector, vector)
      byDistance(i, j) ==
        IF RatLess(dist(i), dist(j)) THEN -1 ELSE IF RatLess(dist(j), dist(i)) THEN 1 ELSE 0
  IN  slice(sort(byDistance, Places(Len(cand))), k)

\* the places of the candidate rows the full-text query matches, k at most
fullTextPlaces(cand, query, k) ==
  slice(SelectSeq(Places(Len(cand)), LAMBDA i : cand[i].content = query), k)

\* table.query().nearestTo(vector).distanceType('cosine').where(p).limit(k)
nearestTo(rs, vector, pred(_), k) ==
  LET cand == SelectSeq(rs, pred)
      near == nearestPlaces(cand, vector, k)
  IN  [ p \in 1..Len(near) |->
          Scored(cand[near[p]], Some(cosineDistance(cand[near[p]].vector, vector)),
                 Absent, Absent) ]

\* table.search(query, 'fts').where(p).limit(k)
fullTextSearch(rs, query, pred(_), k) ==
  LET cand == SelectSeq(rs, pred)
      hits == fullTextPlaces(cand, query, k)
  IN  [ p \in 1..Len(hits) |-> Scored(cand[hits[p]], Absent, Some(Rat(1, 1)), Absent) ]

\* RRFReranker.create(60)
RRF_K == 60

\* table.query().nearestTo(vector).fullTextSearch(query).rerank(rrf).where(p).limit(k):
\* a row of either list scores the sum of 1 / (RRF_K + its rank) over the lists
\* it is in, ranks counted from 1
hybridQuery(rs, vector, query, pred(_), k) ==
  LET cand == SelectSeq(rs, pred)
      near == nearestPlaces(cand, vector, k)
      hits == fullTextPlaces(cand, query, k)
      part(i, list) == IF Member(i, list) THEN Rat(1, RRF_K + PlaceIn(i, list)) ELSE Rat(0, 1)
      relevance(i) == RatAdd(part(i, near), part(i, hits))
      either == SelectSeq(Places(Len(cand)), LAMBDA i : Member(i, near) \/ Member(i, hits))
      byRelevance(i, j) ==
        IF RatLess(relevance(j), relevance(i)) THEN -1
        ELSE IF RatLess(relevance(i), relevance(j)) THEN 1 ELSE 0
      best == slice(sort(byRelevance, either), k)
  IN  [ p \in 1..Len(best) |-> Scored(cand[best[p]], Absent, Absent, Some(relevance(best[p]))) ]

\* ---------------------------------------------------- search strategies

semanticSearch(query, filters, limit) ==
  LET found == nearestTo(rows, embed(query), LAMBDA r : wherePredicate(filters, r), limit * 3)
  IN  toResults(postFilter(found, filters), limit, clock)

\* Variant of keywordSearch: without a usable index the rows are scanned.
keywordSearchScans(query, filters, limit, engineOk) ==
  LET found == fullTextSearch(rows, query, LAMBDA r : wherePredicate(filters, r), limit * 3)
  IN  toResults(postFilter(found, filters), limit, clock)

\* engineOk: the engine's full-text query does not fail for a reason of its own
keywordSearch(query, filters, limit, engineOk) ==
  IF diskFts /\ engineOk
  THEN LET found == fullTextSearch(rows, query, LAMBDA r : wherePredicate(filters, r), limit * 3)
       IN  toResults(postFilter(found, filters), limit, clock)
  ELSE <<>>

\* Variant of hybridSearch: a failing combined query yields the empty list,
\* as in keywordSearch.
hybridSearchDegradesToEmpty(query, filters, limit, engineOk) ==
  IF ~ftsIndexCreated \/ ~reranker
  THEN semanticSearch(query, filters, limit)
  ELSE IF diskFts /\ engineOk
  THEN LET found == hybridQuery(rows, embed(query), query,
                                LAMBDA r : wherePredicate(filters, r), limit * 3)
       IN  toResults(postFilter(found, filters), limit, clock)
  ELSE <<>>

hybridSearch(query, filters, limit, engineOk) ==
  IF ~ftsIndexCreated \/ ~reranker
  THEN semanticSearch(query, filters, limit)
  ELSE IF diskFts /\ engineOk
  THEN LET found == hybridQuery(rows, embed(query), query,
                                LAMBDA r : wherePredicate(filters, r), limit * 3)
       IN  toResults(postFilter(found, filters), limit, clock)
  ELSE semanticSearch(query, filters, limit)

\* filters.limit ?? 10
DEFAULT_LIMIT == 10

\* search(query, mode, filters): the list the call returns in this state
search(query, mode, filters, engineOk) ==
  IF ~table THEN <<>>
  ELSE LET limit == Coalesce(filters.limit, DEFAULT_LIMIT)
       IN  CASE mode = "semantic" -> semanticSearch(query, filters, limit)
             [] mode = "keyword"  -> keywordSearch(query, filters, limit, engineOk)
             [] mode = "hybrid"   -> hybridSearch(query, filters, limit, engineOk)

\* Variant of excludeOriginal: the memory asked about is not filtered out.
excludeOriginalKeepsAll(results, memoryId) == results

\* results.filter(r => r.id !== memoryId)
excludeOriginal(results, memoryId) == SelectSeq(results, LAMBDA r : r.id # memoryId)

\* findRelated(memoryId, limit) throws `Memory ${memoryId} not found`
findRelatedThrows(memoryId) == table /\ fetchById(memoryId) = Null

\* findRelated(memoryId, limit): [ok, value], ok = FALSE when the call throws
findRelated(memoryId, limit) ==
  IF ~table THEN [ok |-> TRUE, value |-> <<>>]
  ELSE IF findRelatedThrows(memoryId) THEN [ok |-> FALSE, value |-> <<>>]
  ELSE LET original == fetchById(memoryId) IN
       LET results == nearestTo(rows, original.vector, LAMBDA r : TRUE, limit + 1)
            IN  [ok |-> TRUE, value |-> toResults(excludeOriginal(results, memoryId), limit, clock)]

\* (a, b) => b.createdAt.localeCompare(a.createdAt)
byCreatedDesc(a, b) == localeCompare(b.createdAt, a.createdAt)

\* (a, b) => a.createdAt.localeCompare(b.createdAt)
byCreatedAsc(a, b) == localeCompare(a.createdAt, b.createdAt)

\* listRecent(limit, category)
listRecent(limit, category) ==
  IF ~table THEN <<>>
  ELSE LET found == IF TruthyText(category)
                    THEN SelectSeq(rows, LAMBDA r : r.category = SqlLiteral(sanitise(category[1])))
                    ELSE rows
       IN  slice(sort(byCreatedDesc, MapSeq(rowToMemory, found)), limit)

\* Variant of stats: the newest memory is read at the head of the list sorted
\* by creation time.
statsNewestAtHead ==
  IF ~table
  THEN [ totalMemories |-> 0, byCategory |-> <<>>,
         oldestMemory |-> Absent, newestMemory |-> Absent ]
  ELSE LET memories == MapSeq(rowToMemory, rows)
           present  == { memories[i].category : i \in 1..Len(memories) }
           sorted   == sort(byCreatedAsc, memories)
       IN  [ totalMemories |-> Len(memories),
             byCategory    |-> [ c \in present |->
                                   Cardinality({ i \in 1..Len(memories) : memories[i].category = c }) ],
             oldestMemory  |-> IF Len(sorted) > 0 THEN Some(sorted[1].createdAt) ELSE Absent,
             newestMemory  |-> IF Len(sorted) > 0 THEN Some(sorted[1].createdAt) ELSE Absent ]

\* stats()
stats ==
  IF ~table
  THEN [ totalMemories |-> 0, byCategory |-> <<>>,
         oldestMemory |-> Absent, newestMemory |-> Absent ]
  ELSE LET memories == MapSeq(rowToMemory, rows)
           present  == { memories[i].category : i \in 1..Len(memories) }
           sorted   == sort(byCreatedAsc, memories)
       IN  [ totalMemories |-> Len(memories),
             byCategory    |-> [ c \in present |->
                                   Cardinality({ i \in 1..Len(memories) : memories[i].category = c }) ],
             oldestMemory  |-> IF Len(sorted) > 0 THEN Some(sorted[1].createdAt) ELSE Absent,
             newestMemory  |-> IF Len(sorted) > 0 THEN Some(sorted[Len(sorted)].createdAt) ELSE Absent ]

\* ------------------------------------------------------------ read calls

Queries == {"alpha", "beta", "gamma"}

Modes == {"semantic", "keyword", "hybrid"}

NoFilters ==
  [category |-> Absent, tags |-> Absent, after |-> Absent, before |-> Absent, limit |-> Absent]

\* the filters a caller of search sends
SearchFilters ==
  { NoFilters,
    [NoFilters EXCEPT !.limit = Some(1)],
    [NoFilters EXCEPT !.category = Some(<<"other">>), !.limit = Some(MaxLimit)],
    [NoFilters EXCEPT !.tags = Some(<<"evergreen">>), !.after = Some(toISOString(DEFAULT_HALF_LIFE))],
    [NoFilters EXCEPT !.before = Some(toISOString(0)), !.limit = Some(0)],
    [NoFilters EXCEPT !.before = Some(toISOString(0))],
    [NoFilters EXCEPT !.after = Some(toISOString(DEFAULT_HALF_LIFE))],
    [NoFilters EXCEPT !.category = Some(<<"learning">>), !.tags = Some(<<"x", "evergreen">>)] }

Limits == 0..MaxLimit

ReadCall(op, ok) == [op |-> op, ok |-> ok, arg |-> <<>>, result |-> <<>>, calls |-> <<>>]

Unread == <<db, reranker, table, ftsIndexCreated, diskTable, rows, diskFts,
            nextId, clock, deleted, onlyStores, hardcopy, inflight>>

\* the categories a caller of listRecent names
RecentCategories == {Absent} \cup { Some(c) : c \in Categories }

\* A read call changes nothing but `last`, whatever its arguments: what it
\* returns is the value of its operator in the state it is made in.

\* a search call: it returns search(query, mode, filters, engineOk)
callSearch ==
  /\ last' = ReadCall("search", TRUE)
  /\ UNCHANGED Unread

\* a findRelated call: it returns findRelated(id, limit).value, or throws
callFindRelated ==
  /\ \E ok \in { ~findRelatedThrows(id) : id \in CallerIds } :
       last' = ReadCall("findRelated", ok)
  /\ UNCHANGED Unread

\* a listRecent call: it returns listRecent(limit, category)
callListRecent ==
  /\ last' = ReadCall("listRecent", TRUE)
  /\ UNCHANGED Unread

\* a stats call: it returns stats
callStats ==
  /\ last' = ReadCall("stats", TRUE)
  /\ UNCHANGED Unread

Next ==
  \/ Tick
  \/ initialize
  \/ \E request \in StoreRequests : store(request)
  \/ \E requests \in Batches : storeBatch(requests)
  \/ \E id \in CallerIds, updates \in UpdateRequests : update(id, updates)
  \/ \E id \in CallerIds : delete(id)
  \/ callSearch
  \/ callFindRelated
  \/ callListRecent
  \/ callStats

Spec == Init /\ [][Next]_vars

(***************************************************************************)
(* Properties of the store                                                 *)
(***************************************************************************)

\* how many rows of rs carry the id
CountId(rs, id) == Cardinality({ i \in 1..Len(rs) : rs[i].id = id })

\* the ids of the memories a search or findRelated returns
ResultIds(results) == [i \in 1..Len(results) |-> results[i].memory.id]

NoDuplicates(s) == \A i, j \in 1..Len(s) : s[i] = s[j] => i = j

\* the ids that were stored and not deleted since
Live == stored \ deleted

\* C1: after N successful store calls and no other write, stats() reports
\* totalMemories = N; in particular the first store leaves one row, not two.
C1_StoreCount ==
  onlyStores => stats.totalMemories = nextId

\* two successful stores and nothing else written
C1_TwoStores ==
  /\ onlyStores
  /\ nextId = 2
  /\ last.op = "store" /\ last.ok
  /\ "add" \in { last.calls[i] : i \in 1..Len(last.calls) }

\* C2: a successful storeBatch of N >= 1 requests raises the row count by
\* exactly N, on the first write as on an existing table, and returns N
\* memories in the order of the requests.
C2_BatchCount ==
  [][ (last'.op = "storeBatch" /\ last'.ok /\ Len(last'.arg) >= 1) =>
        /\ Len(rows') = Len(rows) + Len(last'.arg)
        /\ Len(last'.result) = Len(last'.arg)
        /\ \A i \in 1..Len(last'.arg) :
             /\ last'.result[i].content  = last'.arg[i].content
             /\ last'.result[i].category = last'.arg[i].category
             /\ last'.result[i].tags     = last'.arg[i].tags
             /\ CountId(rows', last'.result[i].id) = 1
        /\ NoDuplicates([i \in 1..Len(last'.result) |-> last'.result[i].id])
    ]_vars

\* a batch of two was the first write: it created the table from the first
\* row and added the second
C2_FirstWriteBatch ==
  /\ last.op = "storeBatch" /\ last.ok
  /\ Len(last.arg) = 2
  /\ last.calls = <<"embedBatch", "createTable", "createIndex", "add">>
  /\ Len(rows) = 2

\* C3: a successful update leaves the row count unchanged and leaves exactly
\* one row with the id, holding the values of that update.
C3_UpdateReplaces ==
  [][ (last'.op = "update" /\ last'.ok) =>
        LET id      == last'.arg.id
            updates == last'.arg.updates
            now     == SelectSeq(rows', LAMBDA r : r.id = id)
        IN
        /\ Len(rows') = Len(rows)
        /\ Len(now) = 1
        /\ <<rowToMemory(now[1])>> = last'.result
        /\ Present(updates.content)  => rowToMemory(now[1]).content  = updates.content[1]
        /\ Present(updates.category) => rowToMemory(now[1]).category = updates.category[1]
        /\ Present(updates.tags)     => rowToMemory(now[1]).tags     = updates.tags[1]
    ]_vars

\* an update that changed the content of one of two rows
C3_Updated ==
  /\ last.op = "update" /\ last.ok
  /\ last.arg.updates.content = Some("beta")
  /\ Len(rows) = 2
  /\ \E i \in 1..Len(rows) : rows[i].id = last.arg.id /\ rows[i].content = "beta"

\* C4: delete on a live id lowers the row count by one, leaves every other
\* row unchanged, and the id is in no later listRecent.
C4_DeleteRemoves ==
  /\ [][ (last'.op = "delete" /\ last'.ok /\ last'.arg \in Live) =>
           /\ Len(rows') = Len(rows) - 1
           /\ rows' = SelectSeq(rows, LAMBDA r : r.id # last'.arg)
       ]_vars
  /\ [](\A id \in deleted : \A limit \in Limits, category \in RecentCategories :
           LET recent == listRecent(limit, category)
           IN  \A i \in 1..Len(recent) : recent[i].id # id)

\* one of two rows was deleted, the other is still listed
C4_Deleted ==
  /\ last.op = "delete" /\ last.ok
  /\ last.arg \in deleted
  /\ Len(rows) = 1
  /\ Len(listRecent(MaxLimit, Absent)) = 1

ReadOps == {"search", "findRelated", "listRecent", "stats"}

\* C6: the table is created only by the first successful write and never by
\* a read; with no table, search, listRecent and stats return the empty or
\* zeroed result without an error and leave the table absent.
C6_LazyTable ==
  /\ [][ /\ ((~diskTable /\ diskTable') \/ (~table /\ table' /\ ~diskTable)) =>
              (last'.op \in {"store", "storeBatch"} /\ last'.ok)
         /\ last'.op \in ReadOps =>
              (table' = table /\ diskTable' = diskTable /\ rows' = rows)
       ]_vars
  /\ [](~table =>
          /\ \A query \in Queries, mode \in Modes, filters \in SearchFilters,
                engineOk \in BOOLEAN :
               search(query, mode, filters, engineOk) = <<>>
          /\ \A limit \in Limits, category \in RecentCategories :
               listRecent(limit, category) = <<>>
          /\ stats.totalMemories = 0
          /\ DOMAIN stats.byCategory = {}
          /\ stats.oldestMemory = Absent
          /\ stats.newestMemory = Absent)

\* a read was made on an initialised store that has no table yet
C6_ReadBeforeWrite ==
  /\ db
  /\ ~table /\ ~diskTable
  /\ last.op \in {"search", "listRecent", "stats"}

\* C7: no search mode returns two results with the same memory id.
C7_NoDuplicateResults ==
  last.op = "search" =>
    \A query \in Queries, mode \in Modes, filters \in SearchFilters,
       engineOk \in BOOLEAN :
      NoDuplicates(ResultIds(search(query, mode, filters, engineOk)))

\* a search on two rows with the full-text index in place, where the hybrid
\* strategy returns both
C7_TwoResults ==
  /\ last.op = "search"
  /\ Len(rows) = 2
  /\ ftsIndexCreated
  /\ \E query \in Queries :
       /\ Len(search(query, "hybrid", NoFilters, TRUE)) = 2
       /\ Len(search(query, "semantic", NoFilters, TRUE)) = 2

\* C8: findRelated(id, limit) on a stored memory returns at most limit
\* results and none of them is the memory asked about.
C8_RelatedExcludesSelf ==
  last.op = "findRelated" =>
    \A id \in CallerIds, limit \in Limits :
      fetchById(id) # Null =>
        LET related == findRelated(id, limit)
        IN  /\ related.ok
            /\ Len(related.value) <= limit
            /\ \A i \in 1..Len(related.value) : related.value[i].memory.id # id

\* findRelated on one of two rows returned the other one
C8_RelatedFound ==
  /\ last.op = "findRelated" /\ last.ok
  /\ Len(rows) = 2
  /\ \E id \in CallerIds :
       /\ fetchById(id) # Null
       /\ Len(findRelated(id, 1).value) = 1
       /\ Len(findRelated(id, MaxLimit).value) = 1

\* C9: findRelated fails with the NotFound error whenever the id resolves to
\* no row, in every state of the store, the one with no table included.
C9_RelatedNotFound ==
  last.op = "findRelated" =>
    \A id \in CallerIds, limit \in Limits :
      whereId(rows, id) = <<>> => ~findRelated(id, limit).ok

\* C10: update on an id that has no row fails, calls neither the embedder
\* nor delete or add, and leaves the rows unchanged.
C10_UpdateUnknown ==
  [][ (last'.op = "update" /\ whereId(rows, last'.arg.id) = <<>>) =>
        /\ ~last'.ok
        /\ rows' = rows
        /\ \A i \in 1..Len(last'.calls) : last'.calls[i] \notin {"embed", "embedBatch", "delete", "add"}
    ]_vars

\* an update of an unknown id failed on a table that has rows
C10_UnknownRejected ==
  /\ last.op = "update" /\ ~last.ok
  /\ last.calls = <<"fetchById">>
  /\ Len(rows) >= 1
  /\ whereId(rows, last.arg.id) = <<>>

\* ----------------------------------------------------------- tool handlers

\* handleDelete (src/src/tools.ts): what the delete tool answers, given
\* whether store.delete(id) returned (deleteOk) or threw
handleDelete(deleteOk, id) ==
  IF deleteOk
  THEN [isError |-> FALSE, data |-> <<[deleted |-> TRUE, id |-> id]>>]
  ELSE [isError |-> TRUE,  data |-> <<>>]

\* C11: deleting an id that has no row is answered by the delete tool with
\* an error, never with {deleted: true}, and leaves the store unchanged.
C11_DeleteUnknownIsError ==
  [][ (last'.op = "delete" /\ whereId(rows, last'.arg) = <<>>) =>
        /\ handleDelete(last'.ok, last'.arg).isError
        /\ handleDelete(last'.ok, last'.arg).data = <<>>
        /\ rows' = rows
    ]_vars

\* C12: createdAt of a memory never changes after it is stored, each
\* successful update sets updatedAt to the time of the update, and store
\* sets createdAt = updatedAt.
C12_Timestamps ==
  [][ /\ \A i \in 1..Len(rows), j \in 1..Len(rows') :
           rows[i].id = rows'[j].id => rows'[j].created_at = rows[i].created_at
      /\ (last'.op = "update" /\ last'.ok) =>
           /\ last'.result[1].updatedAt = toISOString(clock)
           /\ \A j \in 1..Len(rows') :
                rows'[j].id = last'.arg.id => rows'[j].updated_at = toISOString(clock)
      /\ (last'.op \in {"store", "storeBatch"} /\ last'.ok) =>
           \A k \in 1..Len(last'.result) :
             /\ last'.result[k].createdAt = toISOString(clock)
             /\ last'.result[k].updatedAt = last'.result[k].createdAt
             /\ \A j \in 1..Len(rows') :
                  rows'[j].id = last'.result[k].id =>
                    (rows'[j].created_at = toISOString(clock)
                       /\ rows'[j].updated_at = rows'[j].created_at)
    ]_vars

\* a memory stored at one instant was updated at a later one
C12_UpdatedLater ==
  /\ last.op = "update" /\ last.ok
  /\ last.result[1].createdAt = toISOString(0)
  /\ last.result[1].updatedAt = toISOString(DEFAULT_HALF_LIFE)
  /\ \E j \in 1..Len(rows) :
       /\ rows[j].id = last.arg.id
       /\ rows[j].created_at = toISOString(0)
       /\ rows[j].updated_at = toISOString(DEFAULT_HALF_LIFE)

\* C13: update changes only the fields its request provides: an omitted
\* content, category or tags keeps the value of the existing row, a provided
\* one (an empty tag list included) replaces it, and the id is never changed.
C13_MergeProvided ==
  [][ (last'.op = "update" /\ last'.ok) =>
        LET id      == last'.arg.id
            updates == last'.arg.updates
            old     == rowToMemory(whereId(rows, id)[1])
            new     == rowToMemory(whereId(rows', id)[1])
        IN
        /\ Len(whereId(rows', id)) = 1
        /\ new.id = old.id
        /\ new.content  = (IF Present(updates.content)  THEN updates.content[1]  ELSE old.content)
        /\ new.category = (IF Present(updates.category) THEN updates.category[1] ELSE old.category)
        /\ new.tags     = (IF Present(updates.tags)     THEN updates.tags[1]     ELSE old.tags)
    ]_vars

\* an update that provided only an empty tag list emptied the tags of a
\* tagged memory and kept its content and category
C13_TagsEmptied ==
  /\ last.op = "update" /\ last.ok
  /\ last.arg.updates = [content |-> Absent, category |-> Absent, tags |-> Some(<<>>)]
  /\ last.result[1].tags = <<>>
  /\ last.result[1].content = "alpha"
  /\ last.result[1].category = <<"learning">>

\* the calls the last operation made
Called(name) == \E i \in 1..Len(last.calls) : last.calls[i] = name

\* C14: update calls the embedder if and only if it changes the content of
\* the memory; otherwise the stored vector is kept, and whenever the content
\* changes the stored vector is the embedding of the new content.
C14_EmbedIffContentChanged ==
  [][ (last'.op = "update" /\ last'.ok) =>
        LET id  == last'.arg.id
            old == whereId(rows, id)[1]
            new == whereId(rows', id)[1]
        IN
        /\ Called("embed")' <=> (new.content # old.content)
        /\ new.content = old.content => new.vector = old.vector
        /\ new.content # old.content => new.vector = embed(new.content)
    ]_vars

\* a row whose content the query matches
Matches(query) == \E i \in 1..Len(rows) : rows[i].content = query

\* C15: keyword search returns the empty list, and no error, when the table
\* exists but has no full-text index and when the full-text query fails.
C15_KeywordDegrades ==
  (last.op = "search" /\ table) =>
    \A query \in Queries, filters \in SearchFilters :
      /\ search(query, "keyword", filters, FALSE) = <<>>
      /\ ~diskFts => search(query, "keyword", filters, TRUE) = <<>>

\* a keyword search on a table that has no full-text index, for a word that
\* a row holds
C15_NoIndex ==
  /\ last.op = "search"
  /\ table /\ ~diskFts /\ ~ftsIndexCreated
  /\ Matches("alpha")
  /\ search("alpha", "keyword", NoFilters, TRUE) = <<>>

\* C16: hybrid search returns exactly what semantic search returns in the
\* same state when there is no full-text index and when the combined query
\* fails.
C16_HybridDegrades ==
  (last.op = "search" /\ table) =>
    \A query \in Queries, filters \in SearchFilters :
      /\ search(query, "hybrid", filters, FALSE) = search(query, "semantic", filters, FALSE)
      /\ (~ftsIndexCreated \/ ~diskFts) =>
           search(query, "hybrid", filters, TRUE) = search(query, "semantic", filters, TRUE)

\* the index is in place, the combined query fails and hybrid search returns
\* the two rows as semantic search scores them, not as the reranker does
C16_QueryFailed ==
  /\ last.op = "search"
  /\ ftsIndexCreated /\ diskFts
  /\ Len(rows) = 2
  /\ Len(search("alpha", "hybrid", NoFilters, FALSE)) = 2
  /\ search("alpha", "hybrid", NoFilters, FALSE) = search("alpha", "semantic", NoFilters, TRUE)
  /\ search("alpha", "hybrid", NoFilters, TRUE) # search("alpha", "semantic", NoFilters, TRUE)

\* the tags of a memory and the tags asked for have one in common
SharesTag(tags, wanted) ==
  \E i \in 1..Len(tags), j \in 1..Len(wanted) : tags[i] = wanted[j]

\* C17: every result of search, in every mode, satisfies every filter given:
\* its category is filters.category, its tags hold one of filters.tags when
\* that list is not empty, and after <= createdAt <= before, bounds included.
C17_ResultsPassFilters ==
  last.op = "search" =>
    \A query \in Queries, mode \in Modes, filters \in SearchFilters, engineOk \in BOOLEAN :
      LET results == search(query, mode, filters, engineOk)
      IN  \A i \in 1..Len(results) :
            LET m == results[i].memory IN
            /\ TruthyText(filters.category) => m.category = filters.category[1]
            /\ (Present(filters.tags) /\ filters.tags[1] # <<>>) => SharesTag(m.tags, filters.tags[1])
            /\ TruthyText(filters.after)  => getTime(m.createdAt) >= getTime(filters.after[1])
            /\ TruthyText(filters.before) => getTime(m.createdAt) <= getTime(filters.before[1])

\* two memories created at different instants: each of the filters on time,
\* on category and on tags lets exactly one of them through
C17_FiltersSelect ==
  /\ last.op = "search"
  /\ Len(rows) = 2
  /\ Len(search("alpha", "semantic", NoFilters, TRUE)) = 2
  /\ Len(search("alpha", "semantic", [NoFilters EXCEPT !.after = Some(toISOString(DEFAULT_HALF_LIFE))], TRUE)) = 1
  /\ Len(search("alpha", "semantic", [NoFilters EXCEPT !.before = Some(toISOString(0))], TRUE)) = 1
  /\ Len(search("alpha", "semantic",
                [NoFilters EXCEPT !.category = Some(<<"learning">>), !.tags = Some(<<"x", "evergreen">>)],
                TRUE)) = 1

\* the scores of a result list never go up from one entry to the next
NonIncreasing(results) ==
  \A i \in 1..(Len(results) - 1) : ~RatLess(results[i].score, results[i + 1].score)

\* C18: every result list of search and of findRelated is ordered by final
\* score, highest first, and has at most limit entries, the limit of search
\* being filters.limit, or 10 when it is not given.
C18_OrderedAndLimited ==
  /\ last.op = "search" =>
       \A query \in Queries, mode \in Modes, filters \in SearchFilters, engineOk \in BOOLEAN :
         LET results == search(query, mode, filters, engineOk)
         IN  /\ NonIncreasing(results)
             /\ Len(results) <= Coalesce(filters.limit, DEFAULT_LIMIT)
  /\ last.op = "findRelated" =>
       \A id \in CallerIds, limit \in Limits :
         LET related == findRelated(id, limit)
         IN  /\ NonIncreasing(related.value)
             /\ Len(related.value) <= limit

\* the nearest row is old and has decayed below the other one: the search
\* returns the other one first, and only that one under a limit of 1
C18_DecayReorders ==
  /\ last.op = "search"
  /\ Len(rows) = 2
  /\ LET all == search("beta", "semantic", NoFilters, TRUE)
         one == search("beta", "semantic", [NoFilters EXCEPT !.limit = Some(1)], TRUE)
     IN  /\ Len(all) = 2
         /\ all[1].memory.content = "alpha"
         /\ all[2].memory.content = "beta"
         /\ RatLess(all[2].score, all[1].score)
         /\ one = <<all[1]>>

(***************************************************************************)
(* computeDecayFactor on its own: every call of it with an updatedAt and a *)
(* Date.now() among the days 0..MaxDay and a half-life among HalfLives.    *)
(***************************************************************************)

\* the half-lives given: negative, zero (decay disabled) and a few days
HalfLives == (0 - 1) .. 3

\* computeDecayFactor(updatedAt, halfLifeDays) is called at Date.now() = now
callComputeDecayFactor ==
  \E updatedAt \in 0..MaxDay, now \in 0..MaxDay, halfLifeDays \in HalfLives :
    /\ clock' = now
    /\ last' = [ op     |-> "computeDecayFactor",
                 ok     |-> TRUE,
                 arg    |-> [updatedAt |-> toISOString(updatedAt), halfLifeDays |-> halfLifeDays],
                 result |-> <<computeDecayFactor(toISOString(updatedAt), halfLifeDays, now)>>,
                 calls  |-> <<>> ]
    /\ UNCHANGED <<hardcopy, inflight>>
    /\ UNCHANGED <<db, reranker, table, ftsIndexCreated, diskTable, rows, diskFts,
                   nextId, deleted, onlyStores>>

DecayNext == callComputeDecayFactor

SpecDecay == Init /\ [][DecayNext]_vars

\* C19: the decay factor is never above 1 and never negative; it is 1 when
\* halfLifeDays <= 0 and when updatedAt is now or later; it does not grow
\* with age and halves with each further halfLifeDays of age; so a final
\* score is never above its raw score.
C19_DecayFactor ==
  last.op = "computeDecayFactor" =>
    LET updatedAt    == getTime(last.arg.updatedAt)
        halfLifeDays == last.arg.halfLifeDays
        factor       == last.result[1]
        at(day)      == computeDecayFactor(toISOString(day), halfLifeDays, clock)
    IN
    /\ factor.n >= 0 /\ factor.d > 0
    /\ factor.n <= factor.d
    /\ halfLifeDays <= 0 => factor = Rat(1, 1)
    /\ updatedAt >= clock => factor = Rat(1, 1)
    /\ \A older \in 0..updatedAt : ~RatLess(factor, at(older))
    /\ (halfLifeDays > 0 /\ updatedAt <= clock /\ updatedAt >= halfLifeDays) =>
         at(updatedAt - halfLifeDays) = RatMul(factor, Rat(1, 2))
    /\ \A raw \in { Rat(1, 1), Rat(2, 3), Rat(1, RRF_K + 1) } :
         ~RatLess(raw, RatMul(raw, factor))

\* a memory two half-lives old: its factor is one quarter
C19_TwoHalfLives ==
  /\ last.op = "computeDecayFactor"
  /\ last.arg.halfLifeDays = 2
  /\ clock - getTime(last.arg.updatedAt) = 4
  /\ last.result[1] = Rat(1, 4)

\* the tags hold 'evergreen' or 'never-forget'
HasEvergreenTag(tags) ==
  \E i \in 1..Len(tags) : tags[i] = "evergreen" \/ tags[i] = "never-forget"

\* the final score the claim gives a memory with this raw score
FinalScore(raw, memory) ==
  IF HasEvergreenTag(memory.tags) THEN raw
  ELSE RatMul(raw, computeDecayFactor(memory.updatedAt, DECAY_HALF_LIFE_DAYS, clock))

\* the raw score of vector search: 1 / (1 + cosine distance)
RawOfDistance(u, v) ==
  LET dist == cosineDistance(u, v) IN Rat(dist.d, dist.d + dist.n)

\* the score column the engine gave the row with this id in a query result
Column(found, id, column) ==
  LET i == CHOOSE i \in 1..Len(found) : found[i].id = id
  IN  IF column = "_score" THEN found[i]._score[1] ELSE found[i]._relevance_score[1]

\* the tag lists tried on resultToSearchResult directly
ScoredTagLists ==
  { <<>>, <<"x">>, <<"evergreen">>, <<"never-forget">>, <<"x", "never-forget">> }

\* C20: the final score of a memory tagged 'evergreen' or 'never-forget' is
\* its raw score of the mode, whatever its age; the final score of any other
\* memory is its raw score times the decay factor of its updatedAt.
C20_EvergreenExempt ==
  /\ last.op = "search" =>
       \A query \in Queries, filters \in SearchFilters :
         LET limit    == Coalesce(filters.limit, DEFAULT_LIMIT)
             pred(r)  == wherePredicate(filters, r)
             semantic == search(query, "semantic", filters, TRUE)
             keyword  == search(query, "keyword", filters, TRUE)
             hybrid   == search(query, "hybrid", filters, TRUE)
             viaFts   == fullTextSearch(rows, query, pred, limit * 3)
             viaBoth  == hybridQuery(rows, embed(query), query, pred, limit * 3)
         IN
         /\ \A i \in 1..Len(semantic) :
              semantic[i].score =
                FinalScore(RawOfDistance(whereId(rows, semantic[i].memory.id)[1].vector, embed(query)),
                           semantic[i].memory)
         /\ \A i \in 1..Len(keyword) :
              keyword[i].score =
                FinalScore(Column(viaFts, keyword[i].memory.id, "_score"), keyword[i].memory)
         /\ (ftsIndexCreated /\ diskFts) =>
              \A i \in 1..Len(hybrid) :
                hybrid[i].score =
                  FinalScore(Column(viaBoth, hybrid[i].memory.id, "_relevance_score"), hybrid[i].memory)
  /\ last.op = "findRelated" =>
       \A id \in CallerIds, limit \in Limits :
         LET related == findRelated(id, limit).value
         IN  \A i \in 1..Len(related) :
               related[i].score =
                 FinalScore(RawOfDistance(whereId(rows, related[i].memory.id)[1].vector,
                                          whereId(rows, id)[1].vector),
                            related[i].memory)
  /\ last.op \in {"search", "findRelated"} =>
       \A i \in 1..Len(rows), tags \in ScoredTagLists :
         LET row    == [rows[i] EXCEPT !.tags = JSONStringify(tags)]
             result == resultToSearchResult(Scored(row, Some(Rat(1, 2)), Absent, Absent), clock)
         IN  result.score = FinalScore(Rat(2, 3), result.memory)

\* one half-life after two memories were stored, each is the best match of
\* a search: the one tagged evergreen at its full score, the other at half
C20_OldEvergreen ==
  /\ last.op = "search"
  /\ clock = DEFAULT_HALF_LIFE
  /\ Len(rows) = 2
  /\ \A i \in 1..Len(rows) : rows[i].updated_at = toISOString(0)
  /\ LET a == search("alpha", "semantic", NoFilters, TRUE)
         b == search("beta", "semantic", NoFilters, TRUE)
     IN  /\ Len(a) = 2 /\ Len(b) = 2
         /\ \E i \in 1..2 : a[i].memory.tags = <<"evergreen">> /\ a[i].score = Rat(1, 1)
         /\ \E i \in 1..2 : b[i].memory.tags = <<>> /\ b[i].score = Rat(1, 2)

(***************************************************************************)
(* HardcopyMemoryStore: the decorator that mirrors every mutation of the   *)
(* inner store to one JSON file per memory.  A mutation of the decorator   *)
(* is two awaits, and two steps here: the call of the inner store, then    *)
(* the file operation on the memory (or the id) the inner call returned.   *)
(***************************************************************************)

\* Variant of writeHardcopy: the error of writeFile is not caught.
writeHardcopyUncaught(files, memory, fileOk) ==
  IF fileOk
  THEN [files |-> { f \in files : f.id # memory.id } \cup {memory}, threw |-> FALSE,
        calls |-> <<"writeFile">>]
  ELSE [files |-> files, threw |-> TRUE, calls |-> <<"writeFile:failed">>]

\* writeHardcopy(memory): writeFile replaces the file `${memory.id}.json`, or
\* fails (fileOk = FALSE) and the error is logged
writeHardcopy(files, memory, fileOk) ==
  IF fileOk
  THEN [files |-> { f \in files : f.id # memory.id } \cup {memory}, threw |-> FALSE,
        calls |-> <<"writeFile">>]
  ELSE [files |-> files, threw |-> FALSE, calls |-> <<"writeFile:failed">>]

\* deleteHardcopy(id): unlink removes the file `${id}.json`; it fails with
\* ENOENT when there is none, or for a reason of its own (fileOk = FALSE)
deleteHardcopy(files, id, fileOk) ==
  IF fileOk /\ (\E f \in files : f.id = id)
  THEN [files |-> { f \in files : f.id # id }, threw |-> FALSE, calls |-> <<"unlink">>]
  ELSE [files |-> files, threw |-> FALSE, calls |-> <<"unlink:failed">>]

RECURSIVE writeHardcopies(_, _, _)
\* Promise.all(memories.map(m => this.writeHardcopy(m))): failed is the set
\* of places in `memories` whose writeFile fails
writeHardcopies(files, memories, failed) ==
  IF memories = <<>> THEN [files |-> files, threw |-> FALSE, calls |-> <<>>]
  ELSE LET n     == Len(memories)
           front == writeHardcopies(files, SubSeq(memories, 1, n - 1), failed)
           back  == writeHardcopy(front.files, memories[n], n \notin failed)
       IN  [files |-> back.files, threw |-> front.threw \/ back.threw,
            calls |-> front.calls \o back.calls]

\* the inner call of a mutation has returned and its file operation is due
Mirroring(op) == last.op = op /\ last.ok

\* what the decorator's call returns after its file operation
Mirrored(op, out) ==
  [ op     |-> op,
    ok     |-> ~out.threw,
    arg    |-> last.arg,
    result |-> IF out.threw THEN <<>> ELSE last.result,
    calls  |-> last.calls \o out.calls ]

InnerUnchanged ==
  UNCHANGED <<db, reranker, table, ftsIndexCreated, diskTable, rows, diskFts,
              nextId, clock, deleted, onlyStores, inflight>>

\* HardcopyMemoryStore.store, after inner.store(request) returned `memory`
hardcopyStore ==
  /\ Mirroring("store")
  /\ \E fileOk \in BOOLEAN :
       LET out == writeHardcopy(hardcopy, last.result[1], fileOk)
       IN  hardcopy' = out.files /\ last' = Mirrored("Hardcopy.store", out)
  /\ InnerUnchanged

\* HardcopyMemoryStore.storeBatch, after inner.storeBatch returned `memories`
hardcopyStoreBatch ==
  /\ Mirroring("storeBatch")
  /\ \E failed \in SUBSET (1..Len(last.result)) :
       LET out == writeHardcopies(hardcopy, last.result, failed)
       IN  hardcopy' = out.files /\ last' = Mirrored("Hardcopy.storeBatch", out)
  /\ InnerUnchanged

\* HardcopyMemoryStore.update, after inner.update returned `memory`
hardcopyUpdate ==
  /\ Mirroring("update")
  /\ \E fileOk \in BOOLEAN :
       LET out == writeHardcopy(hardcopy, last.result[1], fileOk)
       IN  hardcopy' = out.files /\ last' = Mirrored("Hardcopy.update", out)
  /\ InnerUnchanged

\* HardcopyMemoryStore.delete, after inner.delete(id) returned
hardcopyDelete ==
  /\ Mirroring("delete")
  /\ \E fileOk \in BOOLEAN :
       LET out == deleteHardcopy(hardcopy, last.arg, fileOk)
       IN  hardcopy' = out.files /\ last' = Mirrored("Hardcopy.delete", out)
  /\ InnerUnchanged

InnerMutations == {"store", "storeBatch", "update", "delete"}

\* the updates sent through the decorator: those of the content alone
HardcopyUpdates ==
  { u \in UpdateRequests : Present(u.content) /\ ~Present(u.category) /\ ~Present(u.tags) }

\* the caller makes its calls one after the other: the next one starts when
\* the decorator has returned or the inner store has thrown
HardcopyIdle == ~(last.op \in InnerMutations /\ last.ok)

HardcopyNext ==
  \/ HardcopyIdle /\ initialize
  \/ HardcopyIdle /\ \E request \in StoreRequests : store(request)
  \/ HardcopyIdle /\ \E requests \in Batches : storeBatch(requests)
  \/ HardcopyIdle /\ \E id \in CallerIds, updates \in HardcopyUpdates : update(id, updates)
  \/ HardcopyIdle /\ \E id \in CallerIds : delete(id)
  \/ hardcopyStore
  \/ hardcopyStoreBatch
  \/ hardcopyUpdate
  \/ hardcopyDelete

SpecHardcopy == Init /\ [][HardcopyNext]_vars

\* C21: a failure of the mirror's file write or file delete never
\* propagates: when the inner store, storeBatch, update or delete has
\* succeeded, the decorator's call succeeds and returns the inner result,
\* whether the file operation failed or not, and the inner store is left as
\* the inner call left it.
C21_MirrorNeverFails ==
  [][ (last.op \in InnerMutations /\ last.ok) =>
        /\ last'.ok
        /\ last'.result = last.result
        /\ last'.arg = last.arg
        /\ <<db, reranker, table, ftsIndexCreated, diskTable, rows, diskFts>>'
             = <<db, reranker, table, ftsIndexCreated, diskTable, rows, diskFts>>
    ]_vars

\* an update went through although neither the file of its store nor the
\* file of the update could be written
C21_WriteFailed ==
  /\ last.op = "Hardcopy.update" /\ last.ok
  /\ last.calls[Len(last.calls)] = "writeFile:failed"
  /\ Len(rows) = 1
  /\ hardcopy = {}
  /\ last.result = <<rowToMemory(rows[1])>>

\* ----------------------------------------------------- initialize, again

\* C22: initialize() called again, at any point, succeeds and leaves the
\* rows, the existence of the table and the availability of the full-text
\* index as they were.
C22_InitializeIdempotent ==
  [][ (last'.op = "initialize" /\ db) =>
        /\ last'.ok
        /\ rows' = rows
        /\ diskTable' = diskTable /\ table' = table
        /\ ftsIndexCreated' = ftsIndexCreated /\ diskFts' = diskFts
    ]_vars

\* C22, amended: initialize() called again succeeds and leaves the rows and
\* the existence of the table as they were; it never loses an available
\* full-text index, and the index becomes available only where it was not
\* and this call built it.
C22_InitializeReconciles ==
  [][ (last'.op = "initialize" /\ db) =>
        /\ last'.ok
        /\ rows' = rows
        /\ diskTable' = diskTable /\ table' = table
        /\ ftsIndexCreated => (ftsIndexCreated' /\ last'.calls = <<"openTable">>)
        /\ diskFts => diskFts'
        /\ (ftsIndexCreated' # ftsIndexCreated \/ diskFts' # diskFts) =>
             /\ table /\ ~ftsIndexCreated /\ ftsIndexCreated' /\ diskFts'
             /\ last'.calls = <<"openTable", "createIndex">>
    ]_vars

\* initialize was called again on a store with rows whose index had not
\* been built, and built it
C22_Reconciled ==
  /\ last.op = "initialize"
  /\ last.calls = <<"openTable", "createIndex">>
  /\ Len(rows) >= 1
  /\ ftsIndexCreated /\ diskFts

(***************************************************************************)
(* recall (handleRecall, src/src/tools.ts): one hybrid search per topic,   *)
(* all started together with Promise.all, then listRecent.  Each search is *)
(* two awaits: the embedding of the topic, then the query on the engine.   *)
(* `inflight` holds the searches of the recall that is running.            *)
(***************************************************************************)

\* args.limit_per_topic ?? 5
RECALL_LIMIT_PER_TOPIC == 5
\* args.include_recent ?? 5
RECALL_INCLUDE_RECENT == 5

\* the topic lists given to recall
RecallTopics == { <<"alpha">>, <<"alpha", "beta">>, <<"beta", "gamma">> }

\* no call is running
Quiet == inflight = <<>>

\* handleRecall starts: every store.search(topic, 'hybrid', {limit}) is
\* called, and runs up to its first await
recallStart ==
  /\ Quiet
  /\ \E topics \in RecallTopics, limit_per_topic \in {Absent, Some(1)} :
       inflight' = [ i \in 1..Len(topics) |->
                       [ op       |-> "search",
                         query    |-> topics[i],
                         filters  |-> [NoFilters EXCEPT
                                         !.limit = Some(Coalesce(limit_per_topic,
                                                                 RECALL_LIMIT_PER_TOPIC))],
                         pc       |-> "embed",
                         engineOk |-> TRUE,
                         result   |-> <<>> ] ]
  /\ UNCHANGED <<db, reranker, table, ftsIndexCreated, diskTable, rows, diskFts,
                 nextId, clock, last, deleted, onlyStores, hardcopy>>

\* the search of topic i gets its embedding
searchEmbed(i) ==
  /\ inflight[i].op = "search" /\ inflight[i].pc = "embed"
  /\ inflight' = [inflight EXCEPT ![i].pc = "query"]
  /\ UNCHANGED <<db, reranker, table, ftsIndexCreated, diskTable, rows, diskFts,
                 nextId, clock, last, deleted, onlyStores, hardcopy>>

\* Variant of searchQuery: a failed full-text query marks the index as not
\* created.
searchQueryMarksIndex(i) ==
  /\ inflight[i].op = "search" /\ inflight[i].pc = "query"
  /\ \E engineOk \in BOOLEAN :
       /\ inflight' = [inflight EXCEPT
                         ![i].pc = "done",
                         ![i].engineOk = engineOk,
                         ![i].result = search(inflight[i].query, "hybrid",
                                              inflight[i].filters, engineOk)]
       /\ ftsIndexCreated' = (ftsIndexCreated /\ engineOk)
  /\ UNCHANGED <<db, reranker, table, diskTable, rows, diskFts,
                 nextId, clock, last, deleted, onlyStores, hardcopy>>

\* the search of topic i queries the engine and has its result
searchQuery(i) ==
  /\ inflight[i].op = "search" /\ inflight[i].pc = "query"
  /\ \E engineOk \in BOOLEAN :
       inflight' = [inflight EXCEPT
                      ![i].pc = "done",
                      ![i].engineOk = engineOk,
                      ![i].result = search(inflight[i].query, "hybrid",
                                           inflight[i].filters, engineOk)]
  /\ UNCHANGED <<db, reranker, table, ftsIndexCreated, diskTable, rows, diskFts,
                 nextId, clock, last, deleted, onlyStores, hardcopy>>

\* every search has returned: listRecent, and recall returns
recallReturn ==
  /\ inflight # <<>>
  /\ \A i \in 1..Len(inflight) : inflight[i].op = "search" /\ inflight[i].pc = "done"
  /\ last' = [ op     |-> "recall",
               ok     |-> TRUE,
               arg    |-> [ i \in 1..Len(inflight) |-> inflight[i].query ],
               result |-> << [ i \in 1..Len(inflight) |-> inflight[i].result ],
                             listRecent(RECALL_INCLUDE_RECENT, Absent) >>,
               calls  |-> [ i \in 1..Len(inflight) |-> inflight[i].engineOk ] ]
  /\ inflight' = <<>>
  /\ UNCHANGED <<db, reranker, table, ftsIndexCreated, diskTable, rows, diskFts,
                 nextId, clock, deleted, onlyStores, hardcopy>>

RecallNext ==
  \/ Quiet /\ Tick
  \/ Quiet /\ initialize
  \/ Quiet /\ \E request \in StoreRequests : store(request)
  \/ Quiet /\ callSearch
  \/ Quiet /\ callFindRelated
  \/ Quiet /\ callListRecent
  \/ Quiet /\ callStats
  \/ recallStart
  \/ \E i \in 1..Len(inflight) : searchEmbed(i)
  \/ \E i \in 1..Len(inflight) : searchQuery(i)
  \/ recallReturn

SpecRecall == Init /\ [][RecallNext]_vars

\* C23: search, findRelated, listRecent and stats leave the rows, the table
\* handle and the full-text index flag unchanged, so that the concurrent
\* searches of a recall return, however they interleave, what each of them
\* returns alone in the same state of the store.
C23_ReadsOnly ==
  /\ [][ (last'.op \in ReadOps \/ last'.op = "recall" \/ inflight' # inflight) =>
           <<rows, table, ftsIndexCreated, db, reranker, diskTable, diskFts>>'
             = <<rows, table, ftsIndexCreated, db, reranker, diskTable, diskFts>>
       ]_vars
  /\ [](\A i \in 1..Len(inflight) :
          inflight[i].pc = "done" =>
            inflight[i].result = search(inflight[i].query, "hybrid",
                                        inflight[i].filters, inflight[i].engineOk))

\* a recall of two topics on two rows with the index in place: the first
\* search has its result, found with a failed full-text query, while the
\* second has not queried yet
C23_Interleaved ==
  /\ Len(inflight) = 2
  /\ inflight[1].pc = "done" /\ ~inflight[1].engineOk
  /\ inflight[2].pc = "query"
  /\ Len(rows) = 2 /\ ftsIndexCreated
  /\ Len(inflight[1].result) >= 1

RECURSIVE SumOf(_, _)
\* the sum of the counts f gives to the keys in S
SumOf(f, S) ==
  IF S = {} THEN 0
  ELSE LET c == CHOOSE c \in S : TRUE IN f[c] + SumOf(f, S \ {c})

\* C24: stats() reports the number of rows as totalMemories, for every
\* category that has a row the number of rows of that category (the counts
\* add up to totalMemories), and the smallest and largest createdAt as
\* oldestMemory and newestMemory; without a table or without rows it reports
\* zero, no category and null for both.
C24_Stats ==
  last.op = "stats" =>
    /\ stats.totalMemories = Len(rows)
    /\ DOMAIN stats.byCategory = { rows[i].category : i \in 1..Len(rows) }
    /\ \A c \in DOMAIN stats.byCategory :
         stats.byCategory[c] = Cardinality({ i \in 1..Len(rows) : rows[i].category = c })
    /\ SumOf(stats.byCategory, DOMAIN stats.byCategory) = stats.totalMemories
    /\ IF ~table \/ Len(rows) = 0
       THEN /\ stats.totalMemories = 0
            /\ stats.oldestMemory = Absent /\ stats.newestMemory = Absent
       ELSE /\ Present(stats.oldestMemory) /\ Present(stats.newestMemory)
            /\ \E i \in 1..Len(rows) : rows[i].created_at = stats.oldestMemory[1]
            /\ \E i \in 1..Len(rows) : rows[i].created_at = stats.newestMemory[1]
            /\ \A i \in 1..Len(rows) :
                 /\ getTime(stats.oldestMemory[1]) <= getTime(rows[i].created_at)
                 /\ getTime(rows[i].created_at) <= getTime(stats.newestMemory[1])

\* stats is asked of two rows of two categories created at two instants
C24_TwoCategories ==
  /\ last.op = "stats"
  /\ Len(rows) = 2
  /\ rows[1].category # rows[2].category
  /\ rows[1].created_at # rows[2].created_at
  /\ stats.totalMemories = 2
  /\ stats.oldestMemory # stats.newestMemory

\* the values tried in each score column of a result row: none, or one that
\* no other column turns into
RelevanceColumn == { Absent, Some(Rat(1, 3)) }
DistanceColumn == { Absent, Some(Rat(1, 2)), Some(Rat(0, 1)) }
KeywordColumn == { Absent, Some(Rat(5, 1)) }

\* the raw score the claim gives a row with these score columns
RawByPriority(relevance, distance, ftsScore) ==
  IF Present(relevance) THEN relevance[1]
  ELSE IF Present(distance) THEN Rat(distance[1].d, distance[1].d + distance[1].n)
  ELSE IF Present(ftsScore) THEN ftsScore[1]
  ELSE Rat(0, 1)

\* C28: whatever score columns a result row carries, its raw score is the
\* relevance score if there is one, else 1 / (1 + distance) if there is a
\* distance, else the keyword score if there is one, else 0 (the final score
\* is that raw score, decayed unless the row is evergreen).
C28_RawScorePriority ==
  last.op \in {"search", "findRelated"} =>
    \A i \in 1..Len(rows) :
      \A relevance \in RelevanceColumn, distance \in DistanceColumn, ftsScore \in KeywordColumn :
        LET result == resultToSearchResult(Scored(rows[i], distance, ftsScore, relevance), clock)
        IN  result.score = FinalScore(RawByPriority(relevance, distance, ftsScore), result.memory)

\* a search over an evergreen row and an aged row that is not: on the
\* evergreen row the raw score is the final score, and a row with all three
\* columns scores by its relevance while one with a distance and a keyword
\* score scores by its distance
C28_AllColumns ==
  /\ last.op = "search"
  /\ Len(rows) = 2
  /\ isEvergreen(rows[1]) /\ ~isEvergreen(rows[2])
  /\ resultToSearchResult(Scored(rows[1], Some(Rat(1, 2)), Some(Rat(5, 1)), Some(Rat(1, 3))), clock).score
       = Rat(1, 3)
  /\ resultToSearchResult(Scored(rows[1], Some(Rat(1, 2)), Some(Rat(5, 1)), Absent), clock).score
       = Rat(2, 3)
  /\ resultToSearchResult(Scored(rows[1], Absent, Some(Rat(5, 1)), Absent), clock).score
       = Rat(5, 1)
  /\ resultToSearchResult(Scored(rows[1], Absent, Absent, Absent), clock).score = Rat(0, 1)
  /\ resultToSearchResult(Scored(rows[2], Absent, Some(Rat(5, 1)), Absent), clock).score
       # Rat(5, 1)

\* C27: the write that creates the table attempts the full-text index build
\* right after creating it, and so does every initialize() that finds an
\* existing table; an attempt that fails raises no error and leaves the
\* index recorded as unavailable.
C27_IndexBuildAttempted ==
  [][ /\ (~diskTable /\ diskTable') =>
           /\ last'.op \in {"store", "storeBatch"}
           /\ Called("createTable")' /\ Called("createIndex")'
      /\ (last'.op = "initialize" /\ diskTable) =>
           /\ Called("openTable")' /\ Called("createIndex")'
      /\ (Called("createIndex")' /\ ~diskFts') =>
           /\ last'.ok
           /\ ~ftsIndexCreated'
    ]_vars

(***************************************************************************)
(* Calls in flight.  Every write of LanceMemoryStore is an async function: *)
(* it runs to its next await, and the steps of the calls that are running  *)
(* interleave at the awaits.  Here each call is a record in `inflight`     *)
(* with its position `pc`; the calls started together are awaited          *)
(* together.  table.add of update may fail, and the process may stop.      *)
(***************************************************************************)

\* the calls that run at once
MaxCalls == 2

\* the request lists of the calls: store(request) and storeBatch(requests)
WriteRequests ==
  { << [content |-> "alpha", category |-> <<"learning">>, tags |-> <<"evergreen">>] >>,
    << [content |-> "alpha", category |-> <<"learning">>, tags |-> <<"evergreen">>],
       [content |-> "beta",  category |-> <<"other">>,    tags |-> <<>>] >> }

\* the id the update and delete calls name: the first one handed out
RaceIds == { randomUUID(n) : n \in 1..(IF nextId >= 1 THEN 1 ELSE 0) }

\* the updates of the calls: one that embeds and one that does not
RaceUpdates ==
  { [content |-> Some("beta"), category |-> Absent,            tags |-> Absent],
    [content |-> Absent,       category |-> Some(<<"other">>), tags |-> Absent] }

\* a call at its first await
Call(op, id, arg, pc) ==
  [ op |-> op, id |-> id, arg |-> arg, pc |-> pc, ok |-> TRUE,
    newRows |-> <<>>, seeded |-> FALSE,
    fresh |-> db /\ ~table, nth |-> 0, before |-> 0, had |-> 0 ]

\* a call that threw before its first await
Thrown(op, id, arg) == [Call(op, id, arg, "done") EXCEPT !.ok = FALSE]

Running == 1..Len(inflight)

AllDone == \A i \in Running : inflight[i].pc = "done"

\* ids that calls in flight will draw after their embedding
Reserved(i) == IF inflight[i].pc = "embed" /\ inflight[i].op \in {"store", "storeBatch"}
               THEN Len(inflight[i].arg) ELSE 0

RECURSIVE ReservedUpTo(_)
ReservedUpTo(n) == IF n = 0 THEN 0 ELSE Reserved(n) + ReservedUpTo(n - 1)

\* the ids handed out so far
IssuedIds == { randomUUID(n) : n \in 1..nextId }

\* the place of the next table write among the writes of the calls in flight
NextNth ==
  1 + Cardinality({ i \in Running : inflight[i].nth > 0 })

Process == <<db, reranker, table, ftsIndexCreated>>
Disk == <<diskTable, rows, diskFts>>
Aside == <<last, deleted, onlyStores, hardcopy, clock>>

\* store(request) / storeBatch(requests) is called: await embed / embedBatch
writeStart(requests, batch) ==
  /\ Len(inflight) < MaxCalls
  /\ batch <=> Len(requests) > 1
  /\ nextId + ReservedUpTo(Len(inflight)) + Len(requests) <= MaxIds
  /\ inflight' = Append(inflight,
                        Call(IF batch THEN "storeBatch" ELSE "store", <<>>, requests, "embed"))
  /\ UNCHANGED <<Process, Disk, Aside, nextId>>

\* the embedding is there: the rows are built, and ensureTable either finds
\* this.table, or calls createTable on this.db
writeEmbedded(i) ==
  /\ inflight[i].op \in {"store", "storeBatch"} /\ inflight[i].pc = "embed"
  /\ LET requests == inflight[i].arg
         newRows  == [ k \in 1..Len(requests) |->
                         toRow(requests[k], embed(requests[k].content),
                               toISOString(clock), randomUUID(nextId + k)) ]
     IN  /\ nextId' = nextId + Len(requests)
         /\ inflight' = [inflight EXCEPT
                           ![i].newRows = newRows,
                           ![i].pc = IF table THEN "add"
                                     ELSE IF ~db THEN "done" ELSE "createTable",
                           ![i].ok = table \/ db]
  /\ UNCHANGED <<Process, Disk, Aside>>

\* db.createTable('memories', [seedRow]) resolves: the engine refuses to
\* create a table that exists; otherwise this.table is set and
\* tryCreateFtsIndex is entered
writeCreateTable(i) ==
  /\ inflight[i].pc = "createTable"
  /\ IF diskTable
     THEN /\ inflight' = [inflight EXCEPT ![i].pc = "done", ![i].ok = FALSE]
          /\ UNCHANGED <<Process, Disk>>
     ELSE /\ diskTable' = TRUE
          /\ rows' = tableAdd(<<>>, <<inflight[i].newRows[1]>>)
          /\ table' = TRUE
          /\ inflight' = [inflight EXCEPT
                            ![i].seeded = TRUE,
                            ![i].nth = NextNth,
                            ![i].pc = IF ftsIndexCreated THEN "seeded" ELSE "createIndex"]
          /\ UNCHANGED <<db, reranker, ftsIndexCreated, diskFts>>
  /\ UNCHANGED <<Aside, nextId>>

\* table.createIndex resolves or throws; the throw is caught
writeCreateIndex(i) ==
  /\ inflight[i].pc = "createIndex"
  /\ \E indexOk \in BOOLEAN :
       LET idx == tryCreateFtsIndex(ftsIndexCreated, table, diskFts, indexOk)
       IN  /\ ftsIndexCreated' = idx.created
           /\ diskFts' = idx.onDisk
  /\ inflight' = [inflight EXCEPT ![i].pc = "seeded"]
  /\ UNCHANGED <<db, reranker, table, diskTable, rows, Aside, nextId>>

\* ensureTable returned true: the seed is in; the rest of a batch is added
writeSeeded(i) ==
  /\ inflight[i].pc = "seeded"
  /\ inflight' = [inflight EXCEPT
                    ![i].pc = IF remainingRows(TRUE, inflight[i].newRows) = <<>>
                              THEN "done" ELSE "add"]
  /\ UNCHANGED <<Process, Disk, Aside, nextId>>

\* table.add(remaining) resolves
writeAdd(i) ==
  /\ inflight[i].op \in {"store", "storeBatch"} /\ inflight[i].pc = "add"
  /\ rows' = tableAdd(rows, remainingRows(inflight[i].seeded, inflight[i].newRows))
  /\ inflight' = [inflight EXCEPT ![i].pc = "done", ![i].nth = NextNth]
  /\ UNCHANGED <<Process, diskTable, diskFts, Aside, nextId>>

\* update(id, updates) is called: throws without a table, else await fetchById
updateStart(id, updates) ==
  /\ Len(inflight) < MaxCalls
  /\ inflight' = Append(inflight,
                        IF table THEN Call("update", id, updates, "fetch")
                        ELSE Thrown("update", id, updates))
  /\ UNCHANGED <<Process, Disk, Aside, nextId>>

\* fetchById resolves: throws if there is no row, else the replacement row
\* is made, and its content embedded if content was given
updateFetch(i) ==
  /\ inflight[i].op = "update" /\ inflight[i].pc = "fetch"
  /\ LET existing == fetchById(inflight[i].id)
     IN  inflight' =
           IF existing = Null
           THEN [inflight EXCEPT ![i].pc = "done", ![i].ok = FALSE]
           ELSE [inflight EXCEPT
                   ![i].newRows = << updatedRow(inflight[i].id, inflight[i].arg,
                                                existing, clock) >>,
                   ![i].pc = IF Truthy(inflight[i].arg.content) THEN "embed" ELSE "delete"]
  /\ UNCHANGED <<Process, Disk, Aside, nextId>>

\* embedder.embed(content) resolves
updateEmbed(i) ==
  /\ inflight[i].op = "update" /\ inflight[i].pc = "embed"
  /\ inflight' = [inflight EXCEPT ![i].pc = "delete"]
  /\ UNCHANGED <<Process, Disk, Aside, nextId>>

\* Variant of updateDelete: the old row is left in place until the insert.
updateDeleteDeferred(i) ==
  /\ inflight[i].op = "update" /\ inflight[i].pc = "delete"
  /\ inflight' = [inflight EXCEPT
                    ![i].pc = "add",
                    ![i].before = Len(rows),
                    ![i].had = CountId(rows, inflight[i].id)]
  /\ UNCHANGED <<Process, Disk, Aside, nextId>>

\* table.delete(`id = ...`) of update resolves
updateDelete(i) ==
  /\ inflight[i].op = "update" /\ inflight[i].pc = "delete"
  /\ rows' = tableDelete(rows, inflight[i].id)
  /\ inflight' = [inflight EXCEPT
                    ![i].pc = "add",
                    ![i].before = Len(rows),
                    ![i].had = CountId(rows, inflight[i].id)]
  /\ UNCHANGED <<Process, diskTable, diskFts, Aside, nextId>>

\* table.add([updatedRow]) resolves, or throws and update throws with it
updateAdd(i) ==
  /\ inflight[i].op = "update" /\ inflight[i].pc = "add"
  /\ \E addOk \in BOOLEAN :
       IF addOk
       THEN /\ rows' = tableAdd(rows, inflight[i].newRows)
            /\ inflight' = [inflight EXCEPT ![i].pc = "done", ![i].nth = NextNth]
       ELSE /\ rows' = rows
            /\ inflight' = [inflight EXCEPT ![i].pc = "done", ![i].ok = FALSE]
  /\ UNCHANGED <<Process, diskTable, diskFts, Aside, nextId>>

\* delete(id) is called: throws without a table, else await table.delete
deleteStart(id) ==
  /\ Len(inflight) < MaxCalls
  /\ inflight' = Append(inflight,
                        IF table THEN Call("delete", id, <<>>, "delete")
                        ELSE Thrown("delete", id, <<>>))
  /\ UNCHANGED <<Process, Disk, Aside, nextId>>

\* table.delete(`id = ...`) of delete resolves
deleteRun(i) ==
  /\ inflight[i].op = "delete" /\ inflight[i].pc = "delete"
  /\ rows' = tableDelete(rows, inflight[i].id)
  /\ inflight' = [inflight EXCEPT ![i].pc = "done", ![i].nth = NextNth]
  /\ UNCHANGED <<Process, diskTable, diskFts, Aside, nextId>>

\* every call that was started has returned or thrown
callsReturn ==
  /\ inflight # <<>> /\ AllDone
  /\ last' = [ op     |-> "calls",
               ok     |-> \A i \in Running : inflight[i].ok,
               arg    |-> [ i \in Running |-> inflight[i].op ],
               result |-> <<>>,
               calls  |-> <<>> ]
  /\ inflight' = <<>>
  /\ UNCHANGED <<Process, Disk, deleted, onlyStores, hardcopy, clock, nextId>>

\* the process stops: what it held in memory is gone, the disk stays
processStop ==
  /\ db
  /\ db' = FALSE /\ reranker' = FALSE /\ table' = FALSE /\ ftsIndexCreated' = FALSE
  /\ inflight' = <<>>
  /\ last' = [NoCall EXCEPT !.op = "stop"]
  /\ UNCHANGED <<Disk, deleted, onlyStores, hardcopy, clock, nextId>>

RaceNext ==
  \/ Quiet /\ Tick
  \/ Quiet /\ initialize
  \/ \E requests \in WriteRequests, batch \in BOOLEAN : writeStart(requests, batch)
  \/ \E id \in RaceIds, updates \in RaceUpdates : updateStart(id, updates)
  \/ \E id \in RaceIds : deleteStart(id)
  \/ \E i \in Running : writeEmbedded(i)
  \/ \E i \in Running : writeCreateTable(i)
  \/ \E i \in Running : writeCreateIndex(i)
  \/ \E i \in Running : writeSeeded(i)
  \/ \E i \in Running : writeAdd(i)
  \/ \E i \in Running : updateFetch(i)
  \/ \E i \in Running : updateEmbed(i)
  \/ \E i \in Running : updateDelete(i)
  \/ \E i \in Running : updateAdd(i)
  \/ \E i \in Running : deleteRun(i)
  \/ callsReturn
  \/ processStop

SpecRace == Init /\ [][RaceNext]_vars

\* two calls that were started together and have both completed
Together(i, j) ==
  /\ i \in Running /\ j \in Running /\ i # j
  /\ inflight[i].pc = "done" /\ inflight[j].pc = "done"

\* C25: when two update calls on the same live id have run concurrently and
\* both have completed, the table holds exactly one row for the id, and it
\* is the row written by the update whose insert ran last.
C25_LastInsertWins ==
  \A i, j \in Running :
    ( /\ Together(i, j)
      /\ inflight[i].op = "update" /\ inflight[j].op = "update"
      /\ inflight[i].id = inflight[j].id
      /\ inflight[i].ok /\ inflight[j].ok
      /\ inflight[i].nth < inflight[j].nth )
    => /\ CountId(rows, inflight[j].id) = 1
       /\ whereId(rows, inflight[j].id) = inflight[j].newRows

\* a call of update whose insert step failed, or which the stop of the
\* process caught between its delete and its insert, while no other call ran
LostUpdate(record) ==
  /\ record.op = "update" /\ record.pc = "add"
  /\ record.had = 1
  /\ Len(inflight) = 1

\* no call in flight holds a row of this id that it has still to insert
NotPending(id) ==
  \A i \in Running :
    inflight[i].pc # "done" =>
      \A k \in 1..Len(inflight[i].newRows) : inflight[i].newRows[k].id # id

\* C26: when the insert of update fails, or the process stops after its
\* delete, the store has no row for the id and one row less than before the
\* delete; the failure is the outcome of the call, which does not try again;
\* and an id that has no row, and no call in flight that still holds one for
\* it, never has a row again.
C26_UpdateNotAtomic ==
  [][ /\ ( /\ inflight # <<>> /\ LostUpdate(inflight[1])
           /\ \/ inflight' = <<>>
              \/ Len(inflight') = 1 /\ inflight'[1].pc = "done" /\ ~inflight'[1].ok ) =>
           /\ CountId(rows', inflight[1].id) = 0
           /\ Len(rows') = inflight[1].before - 1
           /\ inflight' # <<>> =>
                inflight' = <<[inflight[1] EXCEPT !.pc = "done", !.ok = FALSE]>>
      /\ \A id \in IssuedIds :
           (CountId(rows, id) = 0 /\ NotPending(id)) => CountId(rows', id) = 0
      /\ (last'.op = "calls" /\ last' # last) =>
           (last'.ok <=> \A i \in Running : inflight[i].ok)
    ]_vars

\* update threw at its insert after deleting the only row of the id: the
\* table is there, empty
C26_RowLost ==
  /\ Len(inflight) = 1
  /\ inflight[1].op = "update" /\ inflight[1].pc = "done" /\ ~inflight[1].ok
  /\ inflight[1].had = 1 /\ inflight[1].before = 1
  /\ table /\ rows = <<>>

\* C29: when two store or storeBatch calls have run concurrently on a store
\* without a table and both have completed, exactly one of them has created
\* the table, neither has failed, and every memory they submitted has exactly
\* one row, the table holding as many rows as memories were submitted.
C29_ConcurrentFirstWrites ==
  \A i, j \in Running :
    ( /\ Together(i, j)
      /\ inflight[i].op \in {"store", "storeBatch"}
      /\ inflight[j].op \in {"store", "storeBatch"}
      /\ inflight[i].fresh /\ inflight[j].fresh )
    => /\ inflight[i].ok /\ inflight[j].ok
       /\ inflight[i].seeded # inflight[j].seeded
       /\ \A k \in 1..Len(inflight[i].newRows) : CountId(rows, inflight[i].newRows[k].id) = 1
       /\ \A k \in 1..Len(inflight[j].newRows) : CountId(rows, inflight[j].newRows[k].id) = 1
       /\ Len(rows) = Len(inflight[i].arg) + Len(inflight[j].arg)

\* C30: when delete(id) and update(id, updates) on the same live id have run
\* concurrently and both have completed, delete not having thrown, there is
\* no row with the id.
C30_DeleteWins ==
  \A i, j \in Running :
    ( /\ Together(i, j)
      /\ inflight[i].op = "delete" /\ inflight[j].op = "update"
      /\ inflight[i].id = inflight[j].id
      /\ inflight[i].ok )
    => CountId(rows, inflight[i].id) = 0

====
